---- MODULE Spec2Model ----
(***************************************************************************)
(* Job Lander browser extension: the question detector (DataCollector),    *)
(* the orchestrator's application record (ApplicationTracker) and the      *)
(* auto-fill workflow (AutoFillManager), modelled as one state machine.    *)
(*                                                                         *)
(* Strings that the code inspects character by character (question texts)  *)
(* are sequences of one-character strings.  Strings of which the code only *)
(* looks at the length and the surrounding whitespace (answers, field      *)
(* values) are records [tag, len, pad]: len counts every character, pad    *)
(* the leading/trailing whitespace among them, tag tells who wrote it.     *)
(***************************************************************************)
EXTENDS Integers, Sequences, FiniteSets, TLC

(* ------------------------------ bounds --------------------------------- *)

\* number of form fields the page can show (document order 1..NumInputs)
NumInputs == 2

\* number of startAutoFill invocations that can be in flight or returning
MaxInvocations == 2

\* number of times startQuestionTracking may register its document listeners
MaxListeners == 2

\* number of save requests that may await their response at a time
MaxInFlight == 1

\* number of timers of one kind the page monitor may have pending
MaxTimers == 1

\* questions added by hand in the sidebar that exist at one time
MaxManual == 1

(* ------------------------- program constants --------------------------- *)

\* minimum answer length admitted into userAnswers
Threshold == 100

\* isValidQuestion: accepted question length range
MinQuestionLen == 10

MaxQuestionLen == 500

\* the length normalize truncates a job description to
MaxDescription == 7000

(* --------------------------- character data ---------------------------- *)

\* the characters with codes 32..126, in code order; the backslash and the
\* backtick, which no question text of the model uses, are spelled out

AsciiChars ==
    <<" ","!","\"","#","$","%","&","'","(",")","*","+",",","-",".","/","0","1","2","3","4","5","6","7","8","9",":",";","<","=",">","?","@","A","B","C","D","E","F","G","H","I","J","K","L","M","N","O","P","Q","R","S","T","U","V","W","X","Y","Z","[","backslash","]","^","_","backtick","a","b","c","d","e","f","g","h","i","j","k","l","m","n","o","p","q","r","s","t","u","v","w","x","y","z","{","|","}","~">>

UpperChars == <<"A","B","C","D","E","F","G","H","I","J","K","L","M","N","O","P","Q","R","S","T","U","V","W","X","Y","Z">>

LowerChars == <<"a","b","c","d","e","f","g","h","i","j","k","l","m","n","o","p","q","r","s","t","u","v","w","x","y","z">>

DigitChars == <<"0","1","2","3","4","5","6","7","8","9">>

IndexOf(c, s) == CHOOSE i \in 1..Len(s) : s[i] = c

InSeq(c, s) == \E i \in 1..Len(s) : s[i] = c

\* String.prototype.charCodeAt for the printable ASCII range
charCodeAt(c) == 31 + IndexOf(c, AsciiChars)

\* String.prototype.toLowerCase, one character
toLowerChar(c) == IF InSeq(c, UpperChars) THEN LowerChars[IndexOf(c, UpperChars)] ELSE c

toLowerCase(s) == [i \in 1..Len(s) |-> toLowerChar(s[i])]

\* the regular expression class \s, within the characters used
IsSpace(c) == c = " "

\* the regular expression class \w
IsWordChar(c) == InSeq(c, UpperChars) \/ InSeq(c, LowerChars) \/ InSeq(c, DigitChars) \/ c = "_"

RECURSIVE TrimLeft(_)
TrimLeft(s) == IF s # <<>> /\ IsSpace(Head(s)) THEN TrimLeft(Tail(s)) ELSE s

RECURSIVE TrimRight(_)
TrimRight(s) ==
    IF s # <<>> /\ IsSpace(s[Len(s)]) THEN TrimRight(SubSeq(s, 1, Len(s) - 1)) ELSE s

\* String.prototype.trim
trim(s) == TrimRight(TrimLeft(s))

\* replace(/\s+/g, rep): every maximal run of whitespace becomes rep
RECURSIVE ReplaceSpaceRuns(_, _)
ReplaceSpaceRuns(s, rep) ==
    IF s = <<>> THEN <<>>
    ELSE IF IsSpace(Head(s)) THEN rep \o ReplaceSpaceRuns(TrimLeft(s), rep)
    ELSE <<Head(s)>> \o ReplaceSpaceRuns(Tail(s), rep)

\* replace(/[...]+/g, ''): every character of the class is removed
RemoveChars(s, class) == SelectSeq(s, LAMBDA c : c \notin class)

\* replace(/[...]+$/, ''): the trailing run of characters of the class is removed
RECURSIVE StripTrailing(_, _)
StripTrailing(s, class) ==
    IF s # <<>> /\ s[Len(s)] \in class THEN StripTrailing(SubSeq(s, 1, Len(s) - 1), class)
    ELSE s

(* --------------------- DataCollector: pure functions ------------------- *)

cleanQuestionText(text) ==
    IF text = <<>> THEN <<>>
    ELSE trim(StripTrailing(ReplaceSpaceRuns(trim(text), <<" ">>), {"*", ":"}))

normalizeQuestionText(text) ==
    IF text = <<>> THEN <<>>
    ELSE trim(ReplaceSpaceRuns(
                 RemoveChars(ReplaceSpaceRuns(trim(toLowerCase(text)), <<" ">>),
                             {"*", ":", "?", "!", "."}),
                 <<"_">>))

\* /^(name|email|...)$/i; the alternative "•" is not ASCII and, like every
\* alternative shorter than MinQuestionLen, is never reached
excludePatterns ==
    { <<"n", "a", "m", "e">>,
      <<"e", "m", "a", "i", "l">>,
      <<"p", "h", "o", "n", "e">>,
      <<"a", "d", "d", "r", "e", "s", "s">>,
      <<"c", "i", "t", "y">>,
      <<"s", "t", "a", "t", "e">>,
      <<"z", "i", "p">>,
      <<"c", "o", "u", "n", "t", "r", "y">>,
      <<"f", "i", "r", "s", "t", " ", "n", "a", "m", "e">>,
      <<"l", "a", "s", "t", " ", "n", "a", "m", "e">>,
      <<"f", "u", "l", "l", " ", "n", "a", "m", "e">>,
      <<"p", "a", "s", "s", "w", "o", "r", "d">>,
      <<"c", "o", "n", "f", "i", "r", "m", " ", "p", "a", "s", "s", "w", "o", "r", "d">>,
      <<"u", "s", "e", "r", "n", "a", "m", "e">>,
      <<"s", "u", "b", "m", "i", "t">>,
      <<"c", "a", "n", "c", "e", "l">>,
      <<"s", "a", "v", "e">>,
      <<"n", "e", "x", "t">>,
      <<"p", "r", "e", "v", "i", "o", "u", "s">>,
      <<"b", "a", "c", "k">>,
      <<"y", "e", "s">>,
      <<"n", "o">>,
      <<"t", "r", "u", "e">>,
      <<"f", "a", "l", "s", "e">>,
      <<"o", "k">>,
      <<"r", "e", "q", "u", "i", "r", "e", "d">>,
      <<"o", "p", "t", "i", "o", "n", "a", "l">>,
      <<"*">>,
      <<"l", "o", "a", "d", "i", "n", "g">>,
      <<"p", "l", "e", "a", "s", "e", " ", "w", "a", "i", "t">>,
      <<"p", "r", "o", "c", "e", "s", "s", "i", "n", "g">> }


\* the words of the \b(...)\b question indicators
questionIndicatorWords ==
    { <<"w", "h", "y">>,
      <<"h", "o", "w">>,
      <<"w", "h", "a", "t">>,
      <<"w", "h", "e", "n">>,
      <<"w", "h", "e", "r", "e">>,
      <<"w", "h", "i", "c", "h">>,
      <<"w", "h", "o">>,
      <<"d", "e", "s", "c", "r", "i", "b", "e">>,
      <<"e", "x", "p", "l", "a", "i", "n">>,
      <<"t", "e", "l", "l", " ", "u", "s">>,
      <<"s", "h", "a", "r", "e">>,
      <<"d", "i", "s", "c", "u", "s", "s">>,
      <<"e", "x", "p", "e", "r", "i", "e", "n", "c", "e">>,
      <<"s", "k", "i", "l", "l">>,
      <<"q", "u", "a", "l", "i", "f", "i", "c", "a", "t", "i", "o", "n">>,
      <<"b", "a", "c", "k", "g", "r", "o", "u", "n", "d">>,
      <<"k", "n", "o", "w", "l", "e", "d", "g", "e">>,
      <<"e", "x", "p", "e", "r", "t", "i", "s", "e">>,
      <<"m", "o", "t", "i", "v", "a", "t">>,
      <<"i", "n", "t", "e", "r", "e", "s", "t">>,
      <<"p", "a", "s", "s", "i", "o", "n">>,
      <<"g", "o", "a", "l">>,
      <<"o", "b", "j", "e", "c", "t", "i", "v", "e">>,
      <<"s", "t", "r", "e", "n", "g", "t", "h">>,
      <<"w", "e", "a", "k", "n", "e", "s", "s">>,
      <<"e", "x", "a", "m", "p", "l", "e">>,
      <<"s", "i", "t", "u", "a", "t", "i", "o", "n">>,
      <<"t", "i", "m", "e", " ", "w", "h", "e", "n">>,
      <<"c", "h", "a", "l", "l", "e", "n", "g", "e">>,
      <<"p", "r", "o", "b", "l", "e", "m">>,
      <<"c", "o", "n", "f", "l", "i", "c", "t">>,
      <<"r", "e", "q", "u", "i", "r", "e">>,
      <<"n", "e", "e", "d">>,
      <<"m", "u", "s", "t">>,
      <<"s", "h", "o", "u", "l", "d">>,
      <<"e", "x", "p", "e", "c", "t">>,
      <<"p", "r", "e", "f", "e", "r">> }


\* /\b(w)\b/i.test(text)
HasWord(text, w) ==
    LET s == toLowerCase(text)
    IN  \E i \in 1..(Len(s) - Len(w) + 1) :
            /\ SubSeq(s, i, i + Len(w) - 1) = w
            /\ (i = 1 \/ ~IsWordChar(s[i - 1]))
            /\ (i + Len(w) - 1 = Len(s) \/ ~IsWordChar(s[i + Len(w)]))

isValidQuestion(text) ==
    IF text = <<>> \/ Len(text) < MinQuestionLen \/ Len(text) > MaxQuestionLen THEN FALSE
    ELSE IF toLowerCase(text) \in excludePatterns THEN FALSE
    ELSE InSeq("?", text) \/ \E w \in questionIndicatorWords : HasWord(text, w)

\* one round of hash = ((hash << 5) - hash) + char; hash = hash & hash, on the
\* 32-bit pattern <<high 16 bits, low 16 bits>> of hash
HashStep(h, code) ==
    LET lo == h[2] * 31 + code
        hi == h[1] * 31 + (lo \div 65536)
    IN  <<hi % 65536, lo % 65536>>

RECURSIVE HashFrom(_, _)
HashFrom(h, text) ==
    IF text = <<>> THEN h ELSE HashFrom(HashStep(h, charCodeAt(Head(text))), Tail(text))

\* Math.abs of the signed 32-bit value whose bit pattern is h
AbsInt32(h) ==
    IF h[1] < 32768 THEN h
    ELSE IF h[2] = 0 THEN <<65536 - h[1], 0>>
    ELSE <<65535 - h[1], 65536 - h[2]>>

\* the id is the decimal string of a number; the number stands for it
generateQuestionId(text) == AbsInt32(HashFrom(<<0, 0>>, text))

(* ---------------------- PageDetector: pure functions ------------------- *)

\* String.prototype.includes
Includes(s, sub) ==
    \E i \in 1..(Len(s) - Len(sub) + 1) : SubSeq(s, i, i + Len(sub) - 1) = sub

\* the least index from i on at which s holds a character of cs; 0 if none
IndexFrom(s, cs, i) ==
    IF \E j \in i..Len(s) : s[j] \in cs
    THEN CHOOSE j \in i..Len(s) : s[j] \in cs /\ \A k \in i..(j - 1) : s[k] \notin cs
    ELSE 0

\* new URL(url).pathname for an absolute http(s) URL without credentials
pathnameOf(url) ==
    LET scheme == CHOOSE i \in 1..Len(url) :
                      /\ SubSeq(url, i, i + 2) = <<":", "/", "/">>
                      /\ \A j \in 1..(i - 1) : SubSeq(url, j, j + 2) # <<":", "/", "/">>
        hostEnd == IndexFrom(url, {"/", "?", "#"}, scheme + 3)
    IN  IF hostEnd = 0 \/ url[hostEnd] # "/" THEN <<"/">>
        ELSE LET pathEnd == IndexFrom(url, {"?", "#"}, hostEnd)
             IN  SubSeq(url, hostEnd, IF pathEnd = 0 THEN Len(url) ELSE pathEnd - 1)

\* PageDetector.detectPageType; pageContent is document.body.textContent
detectPageType(url, body) ==
    LET urlLower == toLowerCase(url)
        pathname == toLowerCase(pathnameOf(url))
        pageContent == toLowerCase(body)
    IN  IF /\ Includes(urlLower, <<"l", "i", "n", "k", "e", "d", "i", "n", ".", "c", "o", "m">>)
           /\ (Includes(urlLower, <<"/", "j", "o", "b", "s", "/", "v", "i", "e", "w", "/">>) \/ Includes(urlLower, <<"j", "o", "b", "i", "d", "=">>))
        THEN "job_posting"
        ELSE IF /\ Includes(urlLower, <<"l", "i", "n", "k", "e", "d", "i", "n", ".", "c", "o", "m">>)
                /\ (Includes(urlLower, <<"/", "j", "o", "b", "s", "/", "a", "p", "p", "l", "i", "c", "a", "t", "i", "o", "n", "/">>) \/ Includes(urlLower, <<"a", "p", "p", "l", "y">>))
        THEN "application_form"
        ELSE IF /\ Includes(urlLower, <<"l", "i", "n", "k", "e", "d", "i", "n", ".", "c", "o", "m">>)
                /\ (\/ Includes(pageContent, <<"a", "p", "p", "l", "i", "c", "a", "t", "i", "o", "n", " ", "s", "u", "b", "m", "i", "t", "t", "e", "d">>)
                    \/ Includes(pageContent, <<"t", "h", "a", "n", "k", " ", "y", "o", "u", " ", "f", "o", "r", " ", "a", "p", "p", "l", "y", "i", "n", "g">>))
        THEN "application_complete"
        ELSE IF /\ Includes(urlLower, <<"i", "n", "d", "e", "e", "d", ".", "c", "o", "m">>)
                /\ (Includes(urlLower, <<"/", "v", "i", "e", "w", "j", "o", "b">>) \/ Includes(pathname, <<"/", "j", "o", "b", "s", "/">>))
        THEN "job_posting"
        ELSE IF /\ Includes(urlLower, <<"i", "n", "d", "e", "e", "d", ".", "c", "o", "m">>)
                /\ (Includes(urlLower, <<"/", "a", "p", "p", "l", "y">>) \/ Includes(pathname, <<"/", "a", "p", "p", "l", "y">>))
        THEN "application_form"
        ELSE IF /\ Includes(urlLower, <<"i", "n", "d", "e", "e", "d", ".", "c", "o", "m">>)
                /\ (\/ Includes(pageContent, <<"a", "p", "p", "l", "i", "c", "a", "t", "i", "o", "n", " ", "s", "u", "b", "m", "i", "t", "t", "e", "d">>)
                    \/ Includes(pageContent, <<"s", "u", "c", "c", "e", "s", "s", "f", "u", "l", "l", "y", " ", "a", "p", "p", "l", "i", "e", "d">>))
        THEN "application_complete"
        ELSE IF /\ Includes(urlLower, <<"g", "l", "a", "s", "s", "d", "o", "o", "r", ".", "c", "o", "m">>)
                /\ (Includes(urlLower, <<"/", "j", "o", "b", "-", "l", "i", "s", "t", "i", "n", "g", "/">>) \/ Includes(pathname, <<"/", "j", "o", "b", "s", "/">>))
        THEN "job_posting"
        ELSE IF /\ Includes(urlLower, <<"g", "l", "a", "s", "s", "d", "o", "o", "r", ".", "c", "o", "m">>)
                /\ (Includes(pathname, <<"/", "a", "p", "p", "l", "y">>) \/ Includes(urlLower, <<"a", "p", "p", "l", "y">>))
        THEN "application_form"
        ELSE IF Includes(pathname, <<"a", "p", "p", "l", "y">>) \/ Includes(pathname, <<"a", "p", "p", "l", "i", "c", "a", "t", "i", "o", "n">>)
        THEN IF \/ Includes(pageContent, <<"t", "h", "a", "n", "k", " ", "y", "o", "u">>)
                \/ Includes(pageContent, <<"s", "u", "b", "m", "i", "t", "t", "e", "d">>)
                \/ Includes(pageContent, <<"c", "o", "n", "f", "i", "r", "m", "a", "t", "i", "o", "n">>)
                \/ Includes(pageContent, <<"s", "u", "c", "c", "e", "s", "s">>)
             THEN "application_complete"
             ELSE "application_form"
        ELSE IF \/ Includes(pathname, <<"j", "o", "b">>)
                \/ Includes(pathname, <<"c", "a", "r", "e", "e", "r">>)
                \/ Includes(pathname, <<"p", "o", "s", "i", "t", "i", "o", "n">>)
        THEN "job_posting"
        ELSE IF \/ Includes(pageContent, <<"a", "p", "p", "l", "y", " ", "n", "o", "w">>)
                \/ Includes(pageContent, <<"s", "u", "b", "m", "i", "t", " ", "a", "p", "p", "l", "i", "c", "a", "t", "i", "o", "n">>)
        THEN "job_posting"
        ELSE IF \/ Includes(pageContent, <<"a", "p", "p", "l", "i", "c", "a", "t", "i", "o", "n", " ", "f", "o", "r", "m">>)
                \/ Includes(pageContent, <<"j", "o", "b", " ", "a", "p", "p", "l", "i", "c", "a", "t", "i", "o", "n">>)
        THEN "application_form"
        ELSE "unknown"

\* the addresses the tab visits
UrlLinkedInView == <<"h", "t", "t", "p", "s", ":", "/", "/", "w", "w", "w", ".", "l", "i", "n", "k", "e", "d", "i", "n", ".", "c", "o", "m", "/", "j", "o", "b", "s", "/", "v", "i", "e", "w", "/", "1", "2", "3", "4", "5">>

UrlLinkedInApplication == <<"h", "t", "t", "p", "s", ":", "/", "/", "w", "w", "w", ".", "l", "i", "n", "k", "e", "d", "i", "n", ".", "c", "o", "m", "/", "j", "o", "b", "s", "/", "a", "p", "p", "l", "i", "c", "a", "t", "i", "o", "n", "/", "1", "2", "3", "4", "5">>

UrlCareers == <<"h", "t", "t", "p", "s", ":", "/", "/", "a", "c", "m", "e", ".", "e", "x", "a", "m", "p", "l", "e", "/", "c", "a", "r", "e", "e", "r", "s", "/", "4", "2">>

UrlApplication == <<"h", "t", "t", "p", "s", ":", "/", "/", "a", "c", "m", "e", ".", "e", "x", "a", "m", "p", "l", "e", "/", "j", "o", "b", "s", "/", "a", "p", "p", "l", "i", "c", "a", "t", "i", "o", "n", "/", "4", "2", "?", "s", "t", "e", "p", "=", "2">>

UrlLinkedInFeed == <<"h", "t", "t", "p", "s", ":", "/", "/", "w", "w", "w", ".", "l", "i", "n", "k", "e", "d", "i", "n", ".", "c", "o", "m", "/", "f", "e", "e", "d", "/">>

Urls == {UrlLinkedInView, UrlLinkedInApplication, UrlLinkedInFeed, UrlCareers, UrlApplication}

\* what document.body.textContent can be
BodyPlain == <<"S", "e", "n", "i", "o", "r", " ", "E", "n", "g", "i", "n", "e", "e", "r">>

BodyThanks == <<"T", "h", "a", "n", "k", " ", "y", "o", "u", " ", "f", "o", "r", " ", "a", "p", "p", "l", "y", "i", "n", "g", "!">>

Bodies == {BodyPlain, BodyThanks}

\* detectPageType for every address and content
PageType == [u \in Urls |-> [b \in Bodies |-> detectPageType(u, b)]]

(* -------------------- JobDataExtractor: pure functions ----------------- *)

\* the keys of the record mergeData builds, in the order of its literal
Keys == <<"jobTitle", "companyName", "location", "jobDescription", "salary", "jobType">>

KeySet == {Keys[i] : i \in 1..Len(Keys)}

\* what a strategy returns when it finds nothing: null
NoSource == [found |-> FALSE, data |-> [k \in KeySet |-> <<>>]]

Source(data) == [found |-> TRUE, data |-> data]

\* merged[key] after the inner loop of mergeData has run for source
MergeSource(merged, source) ==
    IF ~source.found THEN merged
    ELSE [key \in KeySet |->
            IF merged[key] = <<>> /\ source.data[key] # <<>>
            THEN source.data[key]
            ELSE merged[key]]

RECURSIVE MergeFrom(_, _, _)
MergeFrom(merged, sources, i) ==
    IF i > Len(sources) THEN merged
    ELSE MergeFrom(MergeSource(merged, sources[i]), sources, i + 1)

mergeDataLast(sources) ==
    MergeFrom([key \in KeySet |-> <<>>],
              [i \in 1..Len(sources) |-> sources[Len(sources) + 1 - i]], 1)

\* JobDataExtractor.mergeData
mergeData(sources) == MergeFrom([key \in KeySet |-> <<>>], sources, 1)

\* JobDataExtractor.isComplete with threshold 0.7: filled / 3 >= 0.7
isComplete(source) ==
    /\ source.found
    /\ 10 * Cardinality({field \in {"jobTitle", "companyName", "jobDescription"} :
                            Len(source.data[field]) > 0}) >= 7 * 3

\* mapType of normalize
mapType(str) ==
    LET lower == toLowerCase(str)
    IN  IF str = <<>> THEN <<>>
        ELSE IF Includes(lower, <<"f", "u", "l", "l">>) THEN <<"F", "u", "l", "l", "-", "t", "i", "m", "e">>
        ELSE IF Includes(lower, <<"p", "a", "r", "t">>) THEN <<"P", "a", "r", "t", "-", "t", "i", "m", "e">>
        ELSE IF Includes(lower, <<"c", "o", "n", "t", "r", "a", "c", "t">>) THEN <<"C", "o", "n", "t", "r", "a", "c", "t">>
        ELSE IF Includes(lower, <<"i", "n", "t", "e", "r", "n">>) THEN <<"I", "n", "t", "e", "r", "n", "s", "h", "i", "p">>
        ELSE IF Includes(lower, <<"t", "e", "m", "p">>) THEN <<"T", "e", "m", "p", "o", "r", "a", "r", "y">>
        ELSE IF Includes(lower, <<"s", "e", "a", "s", "o", "n", "a", "l">>) THEN <<"S", "e", "a", "s", "o", "n", "a", "l">>
        ELSE IF Includes(lower, <<"f", "r", "e", "e", "l", "a", "n", "c", "e">>) THEN <<"F", "r", "e", "e", "l", "a", "n", "c", "e">>
        ELSE str

\* String.prototype.lastIndexOf for one character, 0-based, -1 if absent
LastIndexOf(s, c) ==
    IF \E i \in 1..Len(s) : s[i] = c
    THEN (CHOOSE i \in 1..Len(s) : s[i] = c /\ \A j \in (i + 1)..Len(s) : s[j] # c) - 1
    ELSE -1

Max3(a, b, c) == IF a >= b /\ a >= c THEN a ELSE IF b >= c THEN b ELSE c

\* the text smartTruncate appends
TruncationNote ==
    <<"newline", "newline">> \o <<"[", "D", "e", "s", "c", "r", "i", "p", "t", "i", "o", "n", " ", "t", "r", "u", "n", "c", "a", "t", "e", "d", ".", " ", "V", "i", "e", "w", " ", "f", "u", "l", "l", " ", "d", "e", "t", "a", "i", "l", "s", " ", "a", "t", " ", "t", "h", "e", " ", "j", "o", "b", " ", "p", "o", "s", "t", "i", "n", "g", ".", "]">>

\* smartTruncate of normalize; "newline" stands for the line feed
smartTruncate(text, maxLength) ==
    IF Len(text) <= maxLength THEN text
    ELSE LET truncated == SubSeq(text, 1, maxLength)
             lastSpace == LastIndexOf(truncated, " ")
             lastNewline == LastIndexOf(truncated, "newline")
             lastPeriod == LastIndexOf(truncated, ".")
             cutPoint == Max3(IF lastPeriod > maxLength - 100 THEN lastPeriod + 1 ELSE 0,
                              IF lastNewline > maxLength - 50 THEN lastNewline ELSE 0,
                              IF lastSpace > maxLength - 20 THEN lastSpace ELSE maxLength)
         IN  trim(SubSeq(text, 1, cutPoint)) \o TruncationNote

\* JobDataExtractor.normalize
normalize(data) ==
    [key \in KeySet |->
        IF key = "jobDescription" THEN smartTruncate(data[key], MaxDescription)
        ELSE IF key = "jobType" THEN mapType(data[key])
        ELSE data[key]]

\* extractFromJSONLD throws on pg: the first JobPosting's jobLocation is an
\* empty array, which is truthy and no string, so extractLocationFromLD takes
\* loc[0], undefined, and reading its address is a TypeError
extractThrows(pg) == pg.fromJSONLD.found /\ pg.jobLocation = "emptyArray"

\* JobDataExtractor.extract on a page where the four strategies find pg
extract(pg) ==
    IF pg.fromJSONLD.found /\ isComplete(pg.fromJSONLD)
    THEN normalize(pg.fromJSONLD.data)
    ELSE normalize(mergeData(<<pg.fromJSONLD, pg.fromSiteSpecific, pg.fromMeta, pg.fromDOM>>))

(* ------------------------------ the page ------------------------------- *)

\* an absent value: undefined or null
NoValue == "none"

\* an absent element reference (the form fields are numbered from 1)
NoElement == 0

\* an absent question id
NoId == <<NoValue>>

\* the form fields of the page, in document order
Inputs == 1..NumInputs

\* textContent of the labels of the form fields
LabelWhyJoin == <<"W","h","y"," ","j","o","i","n"," ","u","s","?">>

LabelWhyJoinLower ==
    <<" "," ","w","h","y"," "," ","j","o","i","n"," ","u","s",":">>

LabelDescribe ==
    <<"D","e","s","c","r","i","b","e"," ","a"," ","s","k","i","l","l"," ","*">>

LabelEmail == <<"E","m","a","i","l">>

InputLabel(e) ==
    CASE e = 1 -> LabelWhyJoin
      [] e = 2 -> LabelWhyJoinLower
      [] e = 3 -> LabelDescribe
      [] e = 4 -> LabelWhyJoin
      [] OTHER -> LabelEmail

\* a text typed into the sidebar's question field
TextCustom == <<"H","o","w"," ","d","i","d"," ","y","o","u"," ","h","e","a","r","?">>

(* ---------------------- answers and field values ----------------------- *)

Txt(tag, len, pad) == [tag |-> tag, len |-> len, pad |-> pad]

\* the empty string ''
EmptyText == Txt("empty", 0, 0)

\* String.prototype.trim on an answer or a field value
trimText(t) == IF t.len - t.pad = 0 THEN EmptyText ELSE Txt(t.tag, t.len - t.pad, 0)

\* the value undefined where a string is expected
Undefined == Txt("undefined", 0, 0)

\* what an assignment to element.value stores: undefined is converted to the
\* nine characters of 'undefined'
DOMString(v) == IF v = Undefined THEN Txt("string", 9, 0) ELSE v

\* what the user can type into a form field of the page
PageTexts == {EmptyText, Txt("user", Threshold + 1, 0)}

\* what a form field can hold when tracking starts
PrefillTexts == PageTexts \cup {Txt("user", 1, 0)}

\* what the user can type into an answer box of the sidebar
SidebarTexts == {EmptyText, Txt("user", Threshold - 1, 0), Txt("user", Threshold, 0)}

\* what the answer service can return for one question
AiTexts == {Txt("ai", Threshold - 1, 0), Txt("ai", Threshold + 1, 1)}

\* what the user can type into a question box of the sidebar
RenameTexts == {cleanQuestionText(InputLabel(e)) : e \in Inputs} \cup {TextCustom}

(* ------------------------------- state --------------------------------- *)

VARIABLES
    inDom,                  \* the form fields attached to document.body
    value,                  \* value[e]: the field's .value
    form,                   \* which form the page shows: it decides the fields' labels
    heap,                   \* the question objects, by reference
    dcTracking,             \* DataCollector.isTracking
    questionObserver,       \* DataCollector.questionObserver is connected
    scanTimeout,            \* DataCollector.scanTimeout is pending
    inputListeners,         \* 'input'/'focus' listener pairs on document
    detectedQuestions,      \* DataCollector.detectedQuestions, insertion order
    deletedQuestionLabels,  \* DataCollector.deletedQuestionLabels
    isTracking,             \* ApplicationTracker.isTracking
    components,             \* ApplicationTracker.dataCollector etc. exist
    appQuestions,           \* applicationData.questions
    userAnswers,            \* applicationData.userAnswers
    sidebarUi,              \* the sidebar's question counter, list and rebuild timer
    companyId,              \* applicationData.companyId
    submittedCvId,          \* applicationData.submittedCvId
    sidebarSelect,          \* the sidebar's company and CV select values
    stopTimer,              \* saveApplication's setTimeout(stopTracking) pending
    outbox,                 \* the messages sent to the background script and
                            \* not answered yet, in sending order
    isRunning,              \* AutoFillManager.isRunning
    cancelRequested,        \* AutoFillManager.cancelRequested
    currentQuestionIndex,   \* AutoFillManager.currentQuestionIndex
    totalQuestions,         \* AutoFillManager.totalQuestions
    results,                \* AutoFillManager.results
    calls,                  \* calls[p]: the startAutoFill invocation in slot p
    returned,               \* what the last startAutoFill call returned
    location,               \* window.location.href
    bodyText,               \* document.body.textContent
    isMonitoring,           \* PageDetector.isMonitoring
    domObserver,            \* PageDetector.observer is connected
    monitorListeners,       \* popstate/hashchange/submit/click listener sets
    currentUrl,             \* PageDetector.currentUrl
    urlTimers,              \* pending setTimeout(handleUrlChange)
    contentTimers,          \* pending setTimeout(handleContentChange)
    submitTimers,           \* pending setTimeout(handleFormSubmission)
    confirmTimers,          \* pending timers set by handleFormSubmission
    currentStep,            \* applicationData.currentStep
    lastPageChange,         \* the last onPageChange call: its type, and a bit
                            \* that every call flips
    strategies,             \* what each extraction strategy finds on the page
    jobData,                \* the job fields of applicationData
    select,                 \* a <select> of the page: its options and selectedIndex
    selectResult,           \* the last fillQuestion call on it: input and outcome
    detected,               \* the last detectInputType call: element and result
    waiting              \* a waitForValidation call and the element's error signs

domVars == <<inDom, value, form>>

collectorVars ==
    <<heap, dcTracking, questionObserver, scanTimeout, inputListeners,
      detectedQuestions, deletedQuestionLabels>>

trackerVars ==
    <<isTracking, components, appQuestions, userAnswers, sidebarUi, companyId,
     submittedCvId,
      sidebarSelect, stopTimer, outbox>>

fillVars ==
    <<isRunning, cancelRequested, currentQuestionIndex, totalQuestions, results,
      calls, returned>>

\* the page monitor's timers
timerVars == <<urlTimers, contentTimers, submitTimers, confirmTimers>>

\* what onPageChange writes
stepVars == <<currentStep, lastPageChange>>

monitorVars ==
    <<location, bodyText, isMonitoring, domObserver, monitorListeners, currentUrl,
      timerVars, stepVars>>

\* the job posting
jobVars == <<strategies, jobData>>

\* the page's select element
selectVars == <<select, selectResult, detected, waiting>>

vars == <<domVars, collectorVars, trackerVars, fillVars, monitorVars, jobVars, selectVars>>

(* ------------------------- question objects ---------------------------- *)

\* references to question objects: every live question plus every question
\* a running startAutoFill still holds after its removal
Refs == 1..(2 * NumInputs)

NoQuestion == [id |-> NoId]

Range(s) == {s[i] : i \in 1..Len(s)}

\* the references reachable from the collector, the tracker and the calls
Roots(dq, aq, cs) ==
    Range(dq) \cup Range(aq)
        \cup UNION {Range(cs[p].questions) \cup Range(cs[p].toFill) : p \in DOMAIN cs}

\* objects nothing refers to any more are dropped
Collect(h, dq, aq, cs) ==
    [r \in Refs |-> IF r \in Roots(dq, aq, cs) THEN h[r] ELSE NoQuestion]

FreeRefs(h) == {r \in Refs : h[r] = NoQuestion}

NewRef(h) == CHOOSE r \in FreeRefs(h) : \A s \in FreeRefs(h) : r <= s

\* Map.prototype.has / get on detectedQuestions
HasQuestion(h, dq, id) == \E i \in 1..Len(dq) : h[dq[i]].id = id

RefOf(h, dq, id) == dq[CHOOSE i \in 1..Len(dq) : h[dq[i]].id = id]

\* Map.prototype.delete on detectedQuestions
WithoutQuestion(h, dq, id) == SelectSeq(dq, LAMBDA r : h[r].id # id)

\* Map.prototype.delete / set on userAnswers, a map from question text to answer
MapDelete(m, k) == [x \in DOMAIN m \ {k} |-> m[x]]

\* new Map()
EmptyMap == [x \in {} |-> EmptyText]

MapSet(m, k, v) == [x \in DOMAIN m \cup {k} |-> IF x = k THEN v ELSE m[x]]

(* ----------------- the collector's and tracker's data ------------------ *)

\* The operations below are functions from one value of this record to the
\* next: h the question objects, dq detectedQuestions, bl the blacklist,
\* aq applicationData.questions, ua applicationData.userAnswers, sb the
\* sidebar's question display.
Store ==
    [h |-> heap, dq |-> detectedQuestions, bl |-> deletedQuestionLabels,
     aq |-> appQuestions, ua |-> userAnswers, sb |-> sidebarUi]

\* The sidebar's question display: element the sidebar is in the page,
\* counter the text of #jl-question-count, list the ids of the questions
\* shown in #jl-questions-list, last lastQuestionsCount, timeout the
\* questions of the pending updateQuestionsTimeout (<<>> if none is pending).
\* This is the SidebarManager after its constructor.
NoSidebar ==
    [element |-> FALSE, isVisible |-> FALSE, removals |-> 0, counter |-> 0, list |-> <<>>,
     last |-> 0, timeout |-> <<>>]

\* SidebarManager.show: a new element shows 0 and "No questions detected yet"
show(sb) ==
    IF sb.element THEN [sb EXCEPT !.isVisible = TRUE]
    ELSE [sb EXCEPT !.element = TRUE, !.isVisible = TRUE, !.counter = 0, !.list = <<>>]

\* SidebarManager.hide: the element leaves the page 300 ms later, in a timer
\* (removals counts the timers pending); a pending rebuild stays pending
hide(sb) ==
    IF sb.element THEN [sb EXCEPT !.isVisible = FALSE, !.removals = @ + 1]
    ELSE [sb EXCEPT !.isVisible = FALSE]

\* the timer of hide: it removes whatever sidebar element there is now
removeSidebar(sb) ==
    IF sb.element
    THEN [sb EXCEPT !.element = FALSE, !.counter = 0, !.list = <<>>, !.removals = @ - 1]
    ELSE [sb EXCEPT !.removals = @ - 1]

\* SidebarManager.updateQuestionCounter
updateQuestionCounter(sb, count) == IF sb.element THEN [sb EXCEPT !.counter = count] ELSE sb

\* SidebarManager.rebuildQuestionsUI
rebuildQuestionsUI(sb, questions) == IF sb.element THEN [sb EXCEPT !.list = questions] ELSE sb

\* SidebarManager.updateQuestions: the same count only updates the counter,
\* another count replaces the pending rebuild by one of these questions
updateQuestions(sb, questions) ==
    IF Len(questions) = sb.last
    THEN updateQuestionCounter(sb, Len(questions))
    ELSE [updateQuestionCounter(sb, Len(questions)) EXCEPT
              !.timeout = <<questions>>, !.last = Len(questions)]

\* SidebarManager.forceUpdateQuestions
forceUpdateQuestions(sb, questions) ==
    [rebuildQuestionsUI(sb, questions) EXCEPT !.timeout = <<>>, !.last = Len(questions)]

\* Array.from(this.detectedQuestions.values()), each question by its id
questionsOf(s) == [i \in 1..Len(s.dq) |-> s.h[s.dq[i]].id]

\* ApplicationTracker.updateQuestions, called by DataCollector.updateTracker
\* with Array.from(this.detectedQuestions.values()); it passes them on to
\* SidebarManager.updateQuestions
updateTracker(s) == [s EXCEPT !.aq = s.dq, !.sb = updateQuestions(s.sb, questionsOf(s))]

\* ApplicationTracker.updateQuestionAnswer
trackerUpdateQuestionAnswer(s, questionId, answer) ==
    IF answer.len >= Threshold /\ \E i \in 1..Len(s.aq) : s.h[s.aq[i]].id = questionId
    THEN LET question ==
                 s.h[s.aq[CHOOSE i \in 1..Len(s.aq) :
                              /\ s.h[s.aq[i]].id = questionId
                              /\ \A j \in 1..(i - 1) : s.h[s.aq[j]].id # questionId]]
         IN  [s EXCEPT !.ua = MapSet(s.ua, question.text, answer)]
    ELSE s

\* the label-for association is the only one the page of the model uses
\* textContent of the label of field e on form f: the varied form labels
\* its fields differently, the repeated form asks "Why join us?" on each
LabelText(f, e) == IF f = "repeated" THEN LabelWhyJoin ELSE InputLabel(e)

extractQuestionFromInput(f, e) ==
    LET questionText == cleanQuestionText(LabelText(f, e))
    IN  IF questionText = <<>> THEN [found |-> FALSE]
        ELSE [found |-> TRUE, text |-> questionText, inputElement |-> e]

\* what a scan derives from each field's label on each form; the labels
\* never change
ScannedOn ==
    [f \in {"varied", "repeated"} |->
        [e \in Inputs |->
            LET questionData == extractQuestionFromInput(f, e)
            IN  IF ~questionData.found THEN [valid |-> FALSE]
                ELSE [valid |-> isValidQuestion(questionData.text),
                      text |-> questionData.text,
                      normalizedText |-> normalizeQuestionText(questionData.text),
                      id |-> generateQuestionId(questionData.text)]]]

Scanned == ScannedOn[form]

\* the body of scanForQuestions' forEach for the field e; new counts newQuestions
ScanInput(st, e, dom, val) ==
    IF e \notin dom \/ ~Scanned[e].valid THEN st
    ELSE IF Scanned[e].normalizedText \in st.s.bl THEN st
    ELSE IF HasQuestion(st.s.h, st.s.dq, Scanned[e].id) THEN st
    ELSE LET r == NewRef(st.s.h)
             question ==
                 [id |-> Scanned[e].id,
                  text |-> Scanned[e].text,
                  normalizedText |-> Scanned[e].normalizedText,
                  inputElement |-> e,
                  element |-> NoElement,
                  relatedInput |-> NoElement,
                  answered |-> FALSE,
                  answer |-> val[e]]
         IN  [s |-> [st.s EXCEPT !.h[r] = question, !.dq = Append(st.s.dq, r)],
              new |-> st.new + 1]

RECURSIVE ScanFrom(_, _, _, _)
ScanFrom(st, e, dom, val) ==
    IF e > NumInputs THEN st ELSE ScanFrom(ScanInput(st, e, dom, val), e + 1, dom, val)

\* a scan that notifies the tracker whether or not it found a new question
scanForQuestionsNotifying(s, tracking, dom, val) ==
    IF ~tracking THEN s
    ELSE updateTracker(ScanFrom([s |-> s, new |-> 0], 1, dom, val).s)

scanForQuestions(s, tracking, dom, val) ==
    IF ~tracking THEN s
    ELSE LET st == ScanFrom([s |-> s, new |-> 0], 1, dom, val)
         IN  IF st.new > 0 THEN updateTracker(st.s) ELSE st.s

\* the geometry test is not modelled: no question object has an element
isInputNearElement(input, element) ==
    IF input = NoElement \/ element = NoElement THEN FALSE ELSE TRUE

\* NoId when no question is found for the field
findQuestionForInput(s, input) ==
    LET direct == {i \in 1..Len(s.dq) : s.h[s.dq[i]].relatedInput = input}
        near == {i \in 1..Len(s.dq) : isInputNearElement(input, s.h[s.dq[i]].element)}
        first(is) == CHOOSE i \in is : \A j \in is : i <= j
    IN  IF direct # {} THEN [id |-> s.h[s.dq[first(direct)]].id, s |-> s]
        ELSE IF near # {}
        THEN [id |-> s.h[s.dq[first(near)]].id,
              s |-> [s EXCEPT !.h[s.dq[first(near)]].relatedInput = input]]
        ELSE [id |-> NoId, s |-> s]

\* an input handler that finds the question by its inputElement and takes
\* any non-empty value
handleInputChangeByElement(s, input, val) ==
    LET v == trimText(val[input])
        own == {i \in 1..Len(s.dq) : s.h[s.dq[i]].inputElement = input}
    IN  IF v.len > 0 /\ own # {}
        THEN LET r == s.dq[CHOOSE i \in own : \A j \in own : i <= j]
                 s1 == [s EXCEPT !.h[r].answered = TRUE, !.h[r].answer = v]
             IN  updateTracker(trackerUpdateQuestionAnswer(s1, s.h[r].id, v))
        ELSE s

handleInputChange(s, input, val) ==
    LET v == trimText(val[input])
        found == findQuestionForInput(s, input)
    IN  IF v.len > Threshold /\ found.id # NoId
        THEN LET r == RefOf(found.s.h, found.s.dq, found.id)
                 s1 == [found.s EXCEPT !.h[r].answered = TRUE, !.h[r].answer = v]
             IN  updateTracker(trackerUpdateQuestionAnswer(s1, found.id, v))
        ELSE s

\* document's 'input' listeners, one per observeFormInputs call, run in turn
RECURSIVE DispatchInput(_, _, _, _, _)
DispatchInput(s, n, tracking, input, val) ==
    IF n = 0 THEN s
    ELSE DispatchInput(IF tracking THEN handleInputChange(s, input, val) ELSE s,
                       n - 1, tracking, input, val)

removeQuestionNoBlacklist(s, questionId) ==
    IF HasQuestion(s.h, s.dq, questionId)
    THEN LET question == s.h[RefOf(s.h, s.dq, questionId)]
         IN  updateTracker([s EXCEPT !.dq = WithoutQuestion(s.h, s.dq, questionId),
                                     !.ua = MapDelete(s.ua, question.text)])
    ELSE s

removeQuestion(s, questionId) ==
    IF HasQuestion(s.h, s.dq, questionId)
    THEN LET question == s.h[RefOf(s.h, s.dq, questionId)]
             normalizedText ==
                 IF question.normalizedText # <<>>
                 THEN question.normalizedText
                 ELSE normalizeQuestionText(question.text)
         IN  updateTracker([s EXCEPT !.bl = s.bl \cup {normalizedText},
                                     !.dq = WithoutQuestion(s.h, s.dq, questionId),
                                     !.ua = MapDelete(s.ua, question.text)])
    ELSE s

updateQuestionText(s, questionId, newText) ==
    IF HasQuestion(s.h, s.dq, questionId)
    THEN LET r == RefOf(s.h, s.dq, questionId)
             oldText == s.h[r].text
         IN  updateTracker(
                 [s EXCEPT !.h[r].text = newText,
                           !.ua = IF oldText \in DOMAIN s.ua
                                  THEN MapSet(MapDelete(s.ua, oldText), newText, s.ua[oldText])
                                  ELSE s.ua])
    ELSE s

updateQuestionAnswerAlways(s, questionId, newAnswer) ==
    IF HasQuestion(s.h, s.dq, questionId)
    THEN LET r == RefOf(s.h, s.dq, questionId)
             text == s.h[r].text
         IN  [s EXCEPT !.h[r].answer = newAnswer,
                       !.ua = IF newAnswer.len > 0
                              THEN MapSet(s.ua, text, newAnswer)
                              ELSE MapDelete(s.ua, text)]
    ELSE s

updateQuestionAnswer(s, questionId, newAnswer) ==
    IF HasQuestion(s.h, s.dq, questionId)
    THEN LET r == RefOf(s.h, s.dq, questionId)
             text == s.h[r].text
         IN  [s EXCEPT !.h[r].answer = newAnswer,
                       !.ua = IF newAnswer.len > 0 /\ newAnswer.len >= Threshold
                              THEN MapSet(s.ua, text, newAnswer)
                              ELSE MapDelete(s.ua, text)]
    ELSE s

\* applicationData's job fields as the constructor leaves them
NoJobData == [key \in KeySet |-> <<>>]

\* a posting without structured data on a site no site-specific strategy
\* knows: only the meta tags and the generic DOM analysis find something
PlainPosting ==
    [fromJSONLD |-> NoSource,
     fromSiteSpecific |-> NoSource,
     fromMeta |-> Source([NoJobData EXCEPT !.jobTitle = <<"M">>]),
     fromDOM |-> Source([NoJobData EXCEPT !.jobTitle = <<"D">>, !.jobType = <<"F", "u", "l", "l", " ", "T", "i", "m", "e">>]),
     jobLocation |-> "absent"]

(* ------------------------------ Init ----------------------------------- *)

Procs == 1..MaxInvocations

\* a slot in which no startAutoFill invocation is in flight; emptyAtCall
\* remembers, until the filter of step 3 has run, which of the questions
\* passed in had an empty answer when startAutoFill was called
IdleCall ==
    [pc |-> "idle", questions |-> <<>>, emptyAtCall |-> {}, userId |-> NoValue,
     toFill |-> <<>>, answers |-> <<>>, i |-> 0]

\* no stopTracking is scheduled; a scheduled one remembers the session whose
\* save it follows (sessions are told apart by the number of
\* startQuestionTracking calls so far)
NoTimer == [pending |-> FALSE, session |-> 0]

\* no waitForValidation call is in progress; errors are the error signs the
\* element shows
NoWait == [pc |-> "idle", timeout |-> 0, iterations |-> 0, polls |-> 0, errors |-> {}]

\* nothing has been returned yet
NoReturn == [success |-> FALSE, error |-> NoValue]

Init ==
    /\ inDom \in SUBSET Inputs
    /\ form = "varied"
    /\ value = [e \in Inputs |-> EmptyText]
    /\ heap = [r \in Refs |-> NoQuestion]
    /\ dcTracking = FALSE
    /\ questionObserver = FALSE
    /\ scanTimeout = FALSE
    /\ inputListeners = 0
    /\ detectedQuestions = <<>>
    /\ deletedQuestionLabels = {}
    /\ isTracking = FALSE
    /\ components = FALSE
    /\ appQuestions = <<>>
    /\ userAnswers = EmptyMap
    /\ sidebarUi = NoSidebar
    /\ companyId = NoValue
    /\ submittedCvId = NoValue
    /\ sidebarSelect = [companyId |-> NoValue, cvId |-> NoValue]
    /\ stopTimer = NoTimer
    /\ outbox = <<>>
    /\ isRunning = FALSE
    /\ cancelRequested = FALSE
    /\ currentQuestionIndex = 0
    /\ totalQuestions = 0
    /\ results = <<>>
    /\ calls = [p \in Procs |-> IdleCall]
    /\ returned = NoReturn
    /\ location = UrlLinkedInView
    /\ bodyText = BodyPlain
    /\ isMonitoring = FALSE
    /\ domObserver = FALSE
    /\ monitorListeners = 0
    /\ currentUrl = UrlLinkedInView
    /\ urlTimers = 0
    /\ contentTimers = 0
    /\ submitTimers = 0
    /\ confirmTimers = 0
    /\ currentStep = "job_posting"
    /\ lastPageChange = [type |-> NoValue, bit |-> FALSE]
    /\ strategies = PlainPosting
    /\ jobData = NoJobData
    /\ select = [options |-> <<>>, selectedIndex |-> 0]
    /\ selectResult = [called |-> FALSE]
    /\ detected = [called |-> FALSE]
    /\ waiting = NoWait

\* the next value of the collector's and tracker's data; cs the calls then
Commit(s, cs) ==
    /\ heap' = Collect(s.h, s.dq, s.aq, cs)
    /\ detectedQuestions' = s.dq
    /\ deletedQuestionLabels' = s.bl
    /\ appQuestions' = s.aq
    /\ userAnswers' = s.ua
    /\ sidebarUi' = s.sb

storeVars ==
    <<heap, detectedQuestions, deletedQuestionLabels, appQuestions, userAnswers, sidebarUi>>

(* ------------------------------ the page ------------------------------- *)

\* the page attaches a form field (with its label); the collector's
\* MutationObserver callback debounces a rescan
AddField(e) ==
    /\ e \notin inDom
    /\ inDom' = inDom \cup {e}
    /\ scanTimeout' = IF questionObserver /\ dcTracking THEN TRUE ELSE scanTimeout
    /\ UNCHANGED <<value, form, storeVars, dcTracking, questionObserver, inputListeners,
                   trackerVars, fillVars>>
    /\ UNCHANGED monitorVars
    /\ UNCHANGED <<jobVars, selectVars>>

\* the page detaches a form field
RemoveField(e) ==
    /\ e \in inDom
    /\ inDom' = inDom \ {e}
    /\ UNCHANGED <<value, form, collectorVars, trackerVars, fillVars>>
    /\ UNCHANGED monitorVars
    /\ UNCHANGED <<jobVars, selectVars>>

\* the user types into a form field: its value changes and an input event
\* bubbles to the document's listeners
PageInput(e, v) ==
    /\ e \in inDom
    /\ v # value[e]
    /\ value' = [value EXCEPT ![e] = v]
    /\ Commit(DispatchInput(Store, inputListeners, dcTracking, e, value'), calls)
    /\ UNCHANGED <<inDom, form, dcTracking, questionObserver, scanTimeout, inputListeners,
                   isTracking, components, companyId, submittedCvId, sidebarSelect,
                   stopTimer, outbox, fillVars>>
    /\ UNCHANGED monitorVars
    /\ UNCHANGED <<jobVars, selectVars>>

\* observeQuestions' debounced setTimeout callback
ScanTimerFires ==
    /\ scanTimeout
    /\ scanTimeout' = FALSE
    /\ Commit(scanForQuestions(Store, dcTracking, inDom, value), calls)
    /\ UNCHANGED <<domVars, dcTracking, questionObserver, inputListeners,
                   isTracking, components, companyId, submittedCvId, sidebarSelect,
                   stopTimer, outbox, fillVars>>
    /\ UNCHANGED monitorVars
    /\ UNCHANGED <<jobVars, selectVars>>

(* ---------------------------- the tracker ------------------------------ *)

\* DataCollector.startQuestionTracking, as far as the flags go; the scan it
\* ends with is part of StartTracking
startQuestionTracking ==
    IF dcTracking
    THEN UNCHANGED <<dcTracking, questionObserver, inputListeners>>
    ELSE /\ dcTracking' = TRUE
         /\ questionObserver' = TRUE
         /\ inputListeners' = inputListeners + 1

\* PageDetector.startMonitoring
startMonitoring ==
    IF isMonitoring
    THEN UNCHANGED <<isMonitoring, domObserver, monitorListeners>>
    ELSE /\ isMonitoring' = TRUE
         /\ domObserver' = TRUE
         /\ monitorListeners' = monitorListeners + 1

\* PageDetector.stopMonitoring
stopMonitoring ==
    /\ isMonitoring' = FALSE
    /\ domObserver' = FALSE

\* the Start Tracking button, shown while not tracking; the PageDetector is
\* constructed, and reads the address, on the first start
StartTracking ==
    /\ ~isTracking
    /\ inputListeners < MaxListeners
    /\ isTracking' = TRUE
    /\ IF extractThrows(strategies)
       THEN \* collectJobPostingData rejects: startTracking's catch shows an
            \* error and nothing after step 1 runs
            UNCHANGED <<domVars, collectorVars, components, appQuestions, userAnswers,
                        sidebarUi,
                        companyId, submittedCvId, sidebarSelect, stopTimer, outbox,
                        fillVars, monitorVars, jobVars>>
       ELSE /\ components' = TRUE
            /\ startQuestionTracking
            /\ LET s == [Store EXCEPT !.sb = show(sidebarUi)]
               IN  Commit(IF dcTracking THEN s ELSE scanForQuestions(s, TRUE, inDom, value),
                          calls)
            /\ UNCHANGED <<domVars, scanTimeout, companyId, submittedCvId, sidebarSelect,
                           stopTimer, outbox, fillVars>>
            /\ startMonitoring
            /\ currentUrl' = IF components THEN currentUrl ELSE location
            /\ UNCHANGED <<location, bodyText, timerVars, stepVars>>
            /\ jobData' = extract(strategies)
            /\ UNCHANGED strategies
    /\ UNCHANGED selectVars

\* DataCollector.stopQuestionTracking
stopQuestionTracking(s) ==
    /\ dcTracking' = FALSE
    /\ questionObserver' = FALSE
    /\ Commit([s EXCEPT !.bl = {}], calls)

\* ApplicationTracker.stopTracking; the sidebar it hides leaves the page when
\* the timer of hide fires
stopTracking ==
    /\ isTracking' = FALSE
    /\ IF components
       THEN stopMonitoring /\ stopQuestionTracking([Store EXCEPT !.sb = hide(sidebarUi)])
       ELSE UNCHANGED <<isMonitoring, domObserver, dcTracking, questionObserver,
                        storeVars>>
    /\ sidebarSelect' = [companyId |-> NoValue, cvId |-> NoValue]

\* the sidebar's close and stop buttons
StopTracking ==
    /\ isTracking
    /\ sidebarUi.element => sidebarUi.removals < MaxTimers
    /\ stopTracking
    /\ UNCHANGED <<domVars, scanTimeout, inputListeners, components, companyId,
                   submittedCvId, stopTimer, outbox, fillVars>>
    /\ UNCHANGED <<location, bodyText, monitorListeners, currentUrl, timerVars,
                   stepVars>>
    /\ UNCHANGED <<jobVars, selectVars>>

\* the setTimeout(() => this.stopTracking(), 2000) of a successful save
StopTimerFires ==
    /\ stopTimer.pending
    /\ sidebarUi.element => sidebarUi.removals < MaxTimers
    /\ stopTimer' = NoTimer
    /\ stopTracking
    /\ UNCHANGED <<domVars, scanTimeout, inputListeners, components, companyId,
                   submittedCvId, outbox, fillVars>>
    /\ UNCHANGED <<location, bodyText, monitorListeners, currentUrl, timerVars,
                   stepVars>>
    /\ UNCHANGED <<jobVars, selectVars>>

\* the setTimeout of SidebarManager.hide fires
RemoveTimerFires ==
    /\ sidebarUi.removals > 0
    /\ sidebarUi' = removeSidebar(sidebarUi)
    /\ UNCHANGED <<domVars, collectorVars, isTracking, components, appQuestions, userAnswers,
                   companyId, submittedCvId, sidebarSelect, stopTimer, outbox, fillVars,
                   monitorVars, jobVars, selectVars>>

\* the sidebar's company select: ApplicationTracker.updateCompanySelection
SelectCompany(c) ==
    /\ isTracking
    /\ sidebarUi.element
    /\ sidebarSelect.companyId # c
    /\ sidebarSelect' = [sidebarSelect EXCEPT !.companyId = c]
    /\ companyId' = c
    /\ UNCHANGED <<domVars, collectorVars, isTracking, components, appQuestions,
                   userAnswers, sidebarUi, submittedCvId, stopTimer, outbox, fillVars>>
    /\ UNCHANGED monitorVars
    /\ UNCHANGED <<jobVars, selectVars>>

\* the sidebar's CV select: ApplicationTracker.updateCvSelection
SelectCv(c) ==
    /\ isTracking
    /\ sidebarUi.element
    /\ sidebarSelect.cvId # c
    /\ sidebarSelect' = [sidebarSelect EXCEPT !.cvId = c]
    /\ submittedCvId' = c
    /\ UNCHANGED <<domVars, collectorVars, isTracking, components, appQuestions,
                   userAnswers, sidebarUi, companyId, stopTimer, outbox, fillVars>>
    /\ UNCHANGED monitorVars
    /\ UNCHANGED <<jobVars, selectVars>>

\* the questions of the SAVE_TRACKED_APPLICATION message
validQuestions(ua) ==
    {[question1 |-> t, answer |-> ua[t]] : t \in {k \in DOMAIN ua : ua[k].len >= Threshold}}

Without(s, i) == [j \in 1..(Len(s) - 1) |-> IF j < i THEN s[j] ELSE s[j + 1]]

\* ApplicationTracker.saveApplication up to the await of the response; the
\* sidebar's save button exists while the sidebar does
SaveApplication ==
    /\ isTracking
    /\ sidebarUi.element
    /\ sidebarSelect.companyId # NoValue
    /\ sidebarSelect.cvId # NoValue
    /\ Cardinality({i \in 1..Len(outbox) :
                        outbox[i].type = "SAVE_TRACKED_APPLICATION"}) < MaxInFlight
    /\ outbox' = Append(outbox, [type |-> "SAVE_TRACKED_APPLICATION",
                                 questions |-> validQuestions(userAnswers),
                                 session |-> inputListeners])
    /\ UNCHANGED <<domVars, collectorVars, isTracking, components, appQuestions,
                   userAnswers, sidebarUi, companyId, submittedCvId, sidebarSelect, stopTimer,
                   fillVars>>
    /\ UNCHANGED monitorVars
    /\ UNCHANGED <<jobVars, selectVars>>

\* the response to a pending SAVE_TRACKED_APPLICATION arrives: on success
\* stopTracking is scheduled
SaveResponse(ok) ==
    /\ \E i \in 1..Len(outbox) :
           /\ outbox[i].type = "SAVE_TRACKED_APPLICATION"
           /\ outbox' = Without(outbox, i)
           /\ stopTimer' = IF ok THEN [pending |-> TRUE, session |-> outbox[i].session]
                            ELSE stopTimer
    /\ UNCHANGED <<domVars, collectorVars, isTracking, components, appQuestions,
                   userAnswers, sidebarUi, companyId, submittedCvId, sidebarSelect, fillVars>>
    /\ UNCHANGED monitorVars
    /\ UNCHANGED <<jobVars, selectVars>>

(* --------------------------- the page monitor -------------------------- *)

\* ApplicationTracker.onPageChange
onPageChange(pageType) ==
    /\ currentStep' = IF pageType = "application_form" THEN "application"
                      ELSE IF pageType = "application_complete" THEN "complete"
                      ELSE currentStep
    /\ lastPageChange' = [type |-> pageType, bit |-> ~lastPageChange.bit]

\* PageDetector.handleUrlChange
handleUrlChange ==
    IF isMonitoring /\ location # currentUrl
    THEN LET oldPageType == PageType[currentUrl][bodyText]
             newPageType == PageType[location][bodyText]
         IN  /\ currentUrl' = location
             /\ IF oldPageType # newPageType
                THEN onPageChange(newPageType)
                ELSE UNCHANGED stepVars
    ELSE UNCHANGED <<currentUrl, stepVars>>

\* PageDetector.handleContentChange
handleContentChange ==
    IF isMonitoring
    THEN onPageChange(PageType[location][bodyText])
    ELSE UNCHANGED stepVars

\* the page changes its address with history.pushState or replaceState,
\* which startMonitoring wraps and stopMonitoring restores
PushState(u) ==
    /\ u # location
    /\ isMonitoring => urlTimers < MaxTimers
    /\ location' = u
    /\ urlTimers' = IF isMonitoring THEN urlTimers + 1 ELSE urlTimers
    /\ UNCHANGED <<domVars, collectorVars, trackerVars, fillVars, bodyText, isMonitoring,
                   domObserver, monitorListeners, currentUrl, contentTimers,
                   submitTimers, confirmTimers, stepVars>>
    /\ UNCHANGED <<jobVars, selectVars>>

\* back/forward or a hash change: every popstate/hashchange listener that
\* monitorUrlChanges ever added schedules handleUrlChange
PopState(u) ==
    /\ u # location
    /\ urlTimers + monitorListeners <= MaxTimers
    /\ location' = u
    /\ urlTimers' = urlTimers + monitorListeners
    /\ UNCHANGED <<domVars, collectorVars, trackerVars, fillVars, bodyText, isMonitoring,
                   domObserver, monitorListeners, currentUrl, contentTimers,
                   submitTimers, confirmTimers, stepVars>>
    /\ UNCHANGED <<jobVars, selectVars>>

\* the user clicks an application button: the click listeners of
\* monitorFormSubmissions, while monitoring, schedule handleUrlChange
ClickApply ==
    /\ isMonitoring
    /\ urlTimers + monitorListeners <= MaxTimers
    /\ urlTimers' = urlTimers + monitorListeners
    /\ UNCHANGED <<domVars, collectorVars, trackerVars, fillVars, location, bodyText,
                   isMonitoring, domObserver, monitorListeners, currentUrl,
                   contentTimers, submitTimers, confirmTimers, stepVars>>
    /\ UNCHANGED <<jobVars, selectVars>>

\* the page replaces a main content area: the observer of monitorDomChanges
\* schedules handleContentChange
ContentChange(b) ==
    /\ b # bodyText
    /\ (domObserver /\ isMonitoring) => contentTimers < MaxTimers
    /\ bodyText' = b
    /\ contentTimers' = IF domObserver /\ isMonitoring
                        THEN contentTimers + 1 ELSE contentTimers
    /\ UNCHANGED <<domVars, collectorVars, trackerVars, fillVars, location, isMonitoring,
                   domObserver, monitorListeners, currentUrl, urlTimers, submitTimers,
                   confirmTimers, stepVars>>
    /\ UNCHANGED <<jobVars, selectVars>>

\* the user submits an application form: the submit listeners of
\* monitorFormSubmissions, while monitoring, schedule handleFormSubmission
SubmitForm ==
    /\ isMonitoring
    /\ submitTimers + monitorListeners <= MaxTimers
    /\ submitTimers' = submitTimers + monitorListeners
    /\ UNCHANGED <<domVars, collectorVars, trackerVars, fillVars, location, bodyText,
                   isMonitoring, domObserver, monitorListeners, currentUrl, urlTimers,
                   contentTimers, confirmTimers, stepVars>>
    /\ UNCHANGED <<jobVars, selectVars>>

UrlTimerFires ==
    /\ urlTimers > 0
    /\ urlTimers' = urlTimers - 1
    /\ handleUrlChange
    /\ UNCHANGED <<domVars, collectorVars, trackerVars, fillVars, location, bodyText,
                   isMonitoring, domObserver, monitorListeners, contentTimers,
                   submitTimers, confirmTimers>>
    /\ UNCHANGED <<jobVars, selectVars>>

ContentTimerFires ==
    /\ contentTimers > 0
    /\ contentTimers' = contentTimers - 1
    /\ handleContentChange
    /\ UNCHANGED <<domVars, collectorVars, trackerVars, fillVars, location, bodyText,
                   isMonitoring, domObserver, monitorListeners, currentUrl, urlTimers,
                   submitTimers, confirmTimers>>
    /\ UNCHANGED <<jobVars, selectVars>>

\* PageDetector.handleFormSubmission runs: while monitoring it sets the
\* timer that looks for the confirmation page
SubmitTimerFires ==
    /\ submitTimers > 0
    /\ isMonitoring => confirmTimers < MaxTimers
    /\ submitTimers' = submitTimers - 1
    /\ confirmTimers' = IF isMonitoring THEN confirmTimers + 1 ELSE confirmTimers
    /\ UNCHANGED <<domVars, collectorVars, trackerVars, fillVars, location, bodyText,
                   isMonitoring, domObserver, monitorListeners, currentUrl, urlTimers,
                   contentTimers, stepVars>>
    /\ UNCHANGED <<jobVars, selectVars>>

\* the timer set by handleFormSubmission fires
ConfirmTimerFires ==
    /\ confirmTimers > 0
    /\ confirmTimers' = confirmTimers - 1
    /\ IF PageType[location][bodyText] = "application_complete"
       THEN onPageChange("application_complete")
       ELSE UNCHANGED stepVars
    /\ UNCHANGED <<domVars, collectorVars, trackerVars, fillVars, location, bodyText,
                   isMonitoring, domObserver, monitorListeners, currentUrl, urlTimers,
                   contentTimers, submitTimers>>
    /\ UNCHANGED <<jobVars, selectVars>>

(* ------------------- the sidebar's question editors -------------------- *)

QuestionIds == {heap[detectedQuestions[i]].id : i \in 1..Len(detectedQuestions)}

\* SidebarManager.updateQuestionAnswer
SidebarAnswer(id, a) ==
    /\ isTracking
    /\ id \in QuestionIds
    /\ a # heap[RefOf(heap, detectedQuestions, id)].answer
    /\ Commit(updateQuestionAnswer(Store, id, a), calls)
    /\ UNCHANGED <<domVars, dcTracking, questionObserver, scanTimeout, inputListeners,
                   isTracking, components, companyId, submittedCvId, sidebarSelect,
                   stopTimer, outbox, fillVars>>
    /\ UNCHANGED monitorVars
    /\ UNCHANGED <<jobVars, selectVars>>

\* SidebarManager.updateQuestionText
SidebarRename(id, t) ==
    /\ isTracking
    /\ id \in QuestionIds
    /\ t # heap[RefOf(heap, detectedQuestions, id)].text
    /\ Commit(updateQuestionText(Store, id, t), calls)
    /\ UNCHANGED <<domVars, dcTracking, questionObserver, scanTimeout, inputListeners,
                   isTracking, components, companyId, submittedCvId, sidebarSelect,
                   stopTimer, outbox, fillVars>>
    /\ UNCHANGED monitorVars
    /\ UNCHANGED <<jobVars, selectVars>>

\* SidebarManager.removeQuestion
SidebarRemove(id) ==
    /\ isTracking
    /\ id \in QuestionIds
    /\ LET s == removeQuestion(Store, id)
       IN  Commit([s EXCEPT !.sb = forceUpdateQuestions(s.sb, questionsOf(s))], calls)
    /\ UNCHANGED <<domVars, dcTracking, questionObserver, scanTimeout, inputListeners,
                   isTracking, components, companyId, submittedCvId, sidebarSelect,
                   stopTimer, outbox, fillVars>>
    /\ UNCHANGED monitorVars
    /\ UNCHANGED <<jobVars, selectVars>>


(* ----------------- the background's answer service -------------------- *)

\* the form field whose label reads query, 0 for any other text
QueryField(query) ==
    IF \E e \in Inputs : Scanned[e].valid /\ Scanned[e].text = query
    THEN CHOOSE e \in Inputs : Scanned[e].valid /\ Scanned[e].text = query
    ELSE 0

\* the answer the service writes for query: its length tells the queries apart
GeneratedFor(query) == Txt("ai", Threshold + 1 + QueryField(query), 0)

\* what one POST to /api/ai-assistant/generate-answer can come to: ok is
\* response.ok && result.success, answer is result.answer
Outcomes(query) ==
    {[ok |-> FALSE, answer |-> EmptyText],
     [ok |-> TRUE, answer |-> EmptyText],
     [ok |-> TRUE, answer |-> GeneratedFor(query)]}

\* one outcome for each of the questions of a request
OutcomesOf(questions) ==
    {outcome \in [1..Len(questions) -> UNION {Outcomes(questions[i]) : i \in 1..Len(questions)}] :
        \A i \in 1..Len(questions) : outcome[i] \in Outcomes(questions[i])}

\* the loop of BackgroundManager.getAutoFillAnswersBatch from index i on
RECURSIVE BatchFrom(_, _, _, _)
BatchFrom(questions, outcome, i, answers) ==
    IF i > Len(questions) THEN answers
    ELSE BatchFrom(questions, outcome, i + 1,
                   Append(answers,
                          IF outcome[i].ok /\ outcome[i].answer.len > 0
                          THEN outcome[i].answer
                          ELSE EmptyText))

getAutoFillAnswersBatchDense(questions, outcome) ==
    SelectSeq(BatchFrom(questions, outcome, 1, <<>>), LAMBDA a : a.len > 0)

getAutoFillAnswersBatch(questions, outcome) == BatchFrom(questions, outcome, 1, <<>>)

\* BackgroundManager.handleMessage for AUTO_FILL_GET_ANSWERS_BATCH: without a
\* token getAutoFillAnswersBatch throws and the catch answers success false
handleMessage(message, token, outcome) ==
    IF ~token
    THEN [kind |-> "response", success |-> FALSE, hasData |-> FALSE, data |-> <<>>]
    ELSE [kind |-> "response", success |-> TRUE, hasData |-> TRUE,
          data |-> getAutoFillAnswersBatch(message.questions, outcome)]

\* the round trip of chrome.runtime.sendMessage throws
SendThrows == [kind |-> "throws", success |-> FALSE, hasData |-> FALSE, data |-> <<>>]

\* the round trip resolves to undefined
NoResponse == [kind |-> "undefined", success |-> FALSE, hasData |-> FALSE, data |-> <<>>]

\* a response that says success but carries no data
NoData == [kind |-> "response", success |-> TRUE, hasData |-> FALSE, data |-> <<>>]

\* how the round trip can end for message
Replies(message) ==
    {SendThrows, NoResponse, NoData, handleMessage(message, FALSE, <<>>)}
        \cup {handleMessage(message, TRUE, outcome) : outcome \in OutcomesOf(message.questions)}

(* -------------------- the sidebar's manual questions ------------------- *)

\* the id 'manual-<Date.now()>' of the k-th hand-made question
ManualId(k) == <<"manual", k, 0>>

ManualIds == {ManualId(k) : k \in 1..MaxManual}

\* SidebarManager.showAddQuestionForm: an empty question without any element
\* is put into detectedQuestions; the tracker is not told
ShowAddQuestionForm ==
    /\ components
    /\ FreeRefs(heap) # {}
    /\ \E k \in 1..MaxManual : ManualId(k) \notin QuestionIds
    /\ LET k == CHOOSE k \in 1..MaxManual :
                    /\ ManualId(k) \notin QuestionIds
                    /\ \A j \in 1..(k - 1) : ManualId(j) \in QuestionIds
           r == NewRef(heap)
           question ==
               [id |-> ManualId(k),
                text |-> <<>>,
                normalizedText |-> <<>>,
                inputElement |-> NoElement,
                element |-> NoElement,
                relatedInput |-> NoElement,
                answered |-> FALSE,
                answer |-> EmptyText]
           s == [Store EXCEPT !.h[r] = question, !.dq = Append(detectedQuestions, r)]
       IN  Commit([s EXCEPT !.sb = forceUpdateQuestions(s.sb, questionsOf(s))], calls)
    /\ UNCHANGED <<domVars, dcTracking, questionObserver, scanTimeout, inputListeners,
                   isTracking, components, companyId, submittedCvId, sidebarSelect,
                   stopTimer, outbox, fillVars>>
    /\ UNCHANGED monitorVars
    /\ UNCHANGED <<jobVars, selectVars>>

(* ------------------------- AutoFillManager ----------------------------- *)

\* what startAutoFill returns while another invocation is running
AlreadyRunning == [success |-> FALSE, error |-> "Auto-fill already running"]

\* the value handleError returns; total is this.totalQuestions
handleError(errorMessage, total) ==
    [success |-> FALSE, filled |-> 0, skipped |-> 0, failed |-> total, error |-> errorMessage]

\* the value startAutoFill returns when no question is left to fill
AllAnswered(questions) ==
    [success |-> TRUE, filled |-> 0, skipped |-> Len(questions), failed |-> 0,
     message |-> "All questions already have answers"]

Count(rs, ok) == Cardinality({i \in 1..Len(rs) : rs[i].success = ok})

generateReportNotCancelled(rs, cancelled) ==
    [success |-> TRUE, filled |-> Count(rs, TRUE), skipped |-> 0,
     failed |-> Count(rs, FALSE), cancelled |-> FALSE]

generateReport(rs, cancelled) ==
    [success |-> TRUE, filled |-> Count(rs, TRUE), skipped |-> 0,
     failed |-> Count(rs, FALSE), cancelled |-> cancelled]

validatePrerequisitesNonEmpty(h, questions) ==
    IF Len(questions) = 0 THEN [valid |-> FALSE, error |-> "No questions to fill"]
    ELSE [valid |-> TRUE, error |-> NoValue]

validatePrerequisites(h, questions) ==
    IF Len(questions) = 0 THEN [valid |-> FALSE, error |-> "No questions to fill"]
    ELSE IF \A i \in 1..Len(questions) : h[questions[i]].inputElement = NoElement
    THEN [valid |-> FALSE, error |-> "No input elements found for questions"]
    ELSE [valid |-> TRUE, error |-> NoValue]

questionsToFillShort(h, questions) ==
    SelectSeq(questions, LAMBDA r : h[r].answer.len < Threshold)

\* step 3 of startAutoFill: the questions whose answer is completely empty
questionsToFill(h, questions) == SelectSeq(questions, LAMBDA r : h[r].answer.len = 0)

\* answers.data[i]: undefined beyond the end of the array
AnswerAt(data, i) == IF i \in 1..Len(data) THEN data[i] ELSE Undefined

\* expectedValue.trim() throws on undefined; the catch turns it into a failure
verifyValueSet(actualValue, expectedValue) ==
    LET actualTrimmed == trimText(actualValue)
        expectedTrimmed == trimText(expectedValue)
    IN  IF expectedValue = Undefined
        THEN [success |-> FALSE, error |-> "Cannot read properties of undefined"]
        ELSE IF actualTrimmed.len = 0 THEN [success |-> FALSE, error |-> "Value is empty"]
        ELSE IF 10 * actualTrimmed.len >= 8 * expectedTrimmed.len
        THEN [success |-> TRUE, error |-> NoValue]
        ELSE [success |-> FALSE, error |-> "Value mismatch"]

\* the slot a new invocation runs in
FreeProc == CHOOSE p \in Procs : calls[p].pc = "idle" /\ \A q \in Procs : calls[q].pc = "idle" => p <= q

RejectsNever == FALSE

\* the guard at the top of startAutoFill
Rejects == isRunning

\* a return that forgets to reset isRunning
ReturnStillRunning(p, r, s) ==
    /\ returned' = r
    /\ isRunning' = isRunning
    /\ calls' = [calls EXCEPT ![p] = IdleCall]
    /\ Commit(s, calls')

\* the invocation in slot p returns r: isRunning is reset on the way out
\* (handleError, or the finally block) and the call's references are dropped
Return(p, r, s) ==
    /\ returned' = r
    /\ isRunning' = FALSE
    /\ calls' = [calls EXCEPT ![p] = IdleCall]
    /\ Commit(s, calls')

\* the caller passes Array.from(detectedQuestions.values()); adapters tells
\* whether window.InputAdapterManager and window.EventTriggerManager exist
StartAutoFill(adapters) ==
    /\ components
    /\ \E p \in Procs : calls[p].pc = "idle"
    /\ LET p == FreeProc
           questions == detectedQuestions
           validation == validatePrerequisites(heap, questions)
       IN  IF Rejects
           THEN /\ returned' = AlreadyRunning
                /\ UNCHANGED <<isRunning, cancelRequested, currentQuestionIndex,
                               totalQuestions, results, calls, storeVars>>
           ELSE /\ cancelRequested' = FALSE
                /\ currentQuestionIndex' = 0
                /\ totalQuestions' = Len(questions)
                /\ results' = <<>>
                /\ IF ~adapters
                   THEN Return(p, handleError("Required adapters not loaded", Len(questions)),
                               Store)
                   ELSE IF ~validation.valid
                   THEN Return(p, handleError(validation.error, Len(questions)), Store)
                   ELSE /\ isRunning' = TRUE
                        /\ calls' = [calls EXCEPT ![p] =
                                        [IdleCall EXCEPT
                                            !.pc = "userId",
                                            !.questions = questions,
                                            !.emptyAtCall =
                                                {r \in Range(questions) :
                                                    heap[r].answer.len = 0}]]
                        /\ UNCHANGED <<returned, storeVars>>
    /\ UNCHANGED <<domVars, dcTracking, questionObserver, scanTimeout, inputListeners,
                   isTracking, components, companyId, submittedCvId, sidebarSelect,
                   stopTimer, outbox>>
    /\ UNCHANGED monitorVars
    /\ UNCHANGED <<jobVars, selectVars>>

\* the message getAIAnswersBatch sends
BatchRequest(h, toFill) ==
    [type |-> "AUTO_FILL_GET_ANSWERS_BATCH",
     questions |-> [i \in 1..Len(toFill) |-> h[toFill[i]].text]]

\* await this.getUserId() completes, then steps 3 and 4 up to the await of
\* the batched answer request
UserIdResolved(p, userId) ==
    /\ calls[p].pc = "userId"
    /\ LET c == calls[p]
           toFill == questionsToFill(heap, c.questions)
       IN  IF userId = NoValue
           THEN /\ Return(p, handleError("User not authenticated", totalQuestions), Store)
                /\ UNCHANGED <<totalQuestions, outbox>>
           ELSE IF Len(toFill) = 0
           THEN /\ Return(p, AllAnswered(c.questions), Store)
                /\ UNCHANGED <<totalQuestions, outbox>>
           ELSE /\ totalQuestions' = Len(toFill)
                /\ outbox' = Append(outbox, BatchRequest(heap, toFill))
                /\ calls' = [calls EXCEPT ![p].pc = "answers", ![p].toFill = toFill,
                                          ![p].userId = userId,
                                          ![p].emptyAtCall = {}]
                /\ Commit(Store, calls')
                /\ UNCHANGED <<returned, isRunning>>
    /\ UNCHANGED <<domVars, dcTracking, questionObserver, scanTimeout, inputListeners,
                   isTracking, components, companyId, submittedCvId, sidebarSelect,
                   stopTimer, cancelRequested, currentQuestionIndex, results>>
    /\ UNCHANGED monitorVars
    /\ UNCHANGED <<jobVars, selectVars>>

FillFailure(question, error) ==
    [questionId |-> question.id, success |-> FALSE, error |-> error]

\* a loop that looks at the cancellation flag only from its second pass on
LoopTopAfterFirst(p, c, i) ==
    IF i >= Len(c.toFill) \/ (cancelRequested /\ i > 0)
    THEN /\ Return(p, generateReport(results, cancelRequested), Store)
         /\ UNCHANGED <<currentQuestionIndex, results>>
    ELSE LET question == heap[c.toFill[i + 1]]
         IN  /\ currentQuestionIndex' = i + 1
             /\ IF question.inputElement = NoElement \/ question.inputElement \notin inDom
                THEN /\ results' = Append(results,
                            FillFailure(question, "Input element not found or removed from DOM"))
                     /\ calls' = [calls EXCEPT ![p] = [c EXCEPT !.pc = "sleep", !.i = i]]
                ELSE /\ calls' = [calls EXCEPT ![p] = [c EXCEPT !.pc = "fill", !.i = i]]
                     /\ UNCHANGED results
             /\ Commit(Store, calls')
             /\ UNCHANGED <<returned, isRunning>>

LoopTopSkipping(p, c, i) ==
    IF i >= Len(c.toFill) \/ cancelRequested
    THEN /\ Return(p, generateReport(results, cancelRequested), Store)
         /\ UNCHANGED <<currentQuestionIndex, results>>
    ELSE LET question == heap[c.toFill[i + 1]]
         IN  /\ currentQuestionIndex' = i + 1
             /\ IF question.inputElement = NoElement \/ question.inputElement \notin inDom
                THEN calls' = [calls EXCEPT ![p] = [c EXCEPT !.pc = "sleep", !.i = i]]
                ELSE calls' = [calls EXCEPT ![p] = [c EXCEPT !.pc = "fill", !.i = i]]
             /\ UNCHANGED results
             /\ Commit(Store, calls')
             /\ UNCHANGED <<returned, isRunning>>

\* the top of the fill loop for index i (0-based), up to the first await of
\* fillQuestion; c is the call's record
LoopTop(p, c, i) ==
    IF i >= Len(c.toFill) \/ cancelRequested
    THEN /\ Return(p, generateReport(results, cancelRequested), Store)
         /\ UNCHANGED <<currentQuestionIndex, results>>
    ELSE LET question == heap[c.toFill[i + 1]]
         IN  /\ currentQuestionIndex' = i + 1
             /\ IF question.inputElement = NoElement \/ question.inputElement \notin inDom
                THEN /\ results' = Append(results,
                            FillFailure(question, "Input element not found or removed from DOM"))
                     /\ calls' = [calls EXCEPT ![p] = [c EXCEPT !.pc = "sleep", !.i = i]]
                ELSE /\ calls' = [calls EXCEPT ![p] = [c EXCEPT !.pc = "fill", !.i = i]]
                     /\ UNCHANGED results
             /\ Commit(Store, calls')
             /\ UNCHANGED <<returned, isRunning>>

\* await this.getAIAnswersBatch(...) completes with response, the value
\* getAIAnswersBatch returns
AnswersArrive(p, response) ==
    /\ calls[p].pc = "answers"
    /\ outbox' = Without(outbox, CHOOSE i \in 1..Len(outbox) :
                                    outbox[i].type = "AUTO_FILL_GET_ANSWERS_BATCH")
    /\ IF ~response.success
       THEN /\ Return(p, handleError("Failed to get AI answers", totalQuestions), Store)
            /\ UNCHANGED <<currentQuestionIndex, results>>
       ELSE LoopTop(p, [calls[p] EXCEPT !.answers = response.data], 0)
    /\ UNCHANGED <<domVars, dcTracking, questionObserver, scanTimeout, inputListeners,
                   isTracking, components, companyId, submittedCvId, sidebarSelect,
                   stopTimer, cancelRequested, totalQuestions>>
    /\ UNCHANGED monitorVars
    /\ UNCHANGED <<jobVars, selectVars>>

getAIAnswersBatchTrusting(reply) ==
    [success |-> reply.kind = "response" /\ reply.success, data |-> reply.data]

\* AutoFillManager.getAIAnswersBatch from the end of the round trip on
getAIAnswersBatch(reply) ==
    IF reply.kind = "throws" THEN [success |-> FALSE, data |-> <<>>]
    ELSE IF reply.kind = "response" /\ reply.success /\ reply.hasData
    THEN [success |-> TRUE, data |-> reply.data]
    ELSE [success |-> FALSE, data |-> <<>>]

\* where the batch request in flight is
PendingIndex == CHOOSE i \in 1..Len(outbox) : outbox[i].type = "AUTO_FILL_GET_ANSWERS_BATCH"

PendingBatch == outbox[PendingIndex]

Replied(message) == "reply" \in DOMAIN message

\* the round trip of the batched answer request ends with a reply, which
\* waits for the content script to take it up
RoundTripEnds ==
    /\ \E i \in 1..Len(outbox) : outbox[i].type = "AUTO_FILL_GET_ANSWERS_BATCH"
    /\ ~Replied(PendingBatch)
    /\ \E reply \in Replies(PendingBatch) :
           outbox' = [outbox EXCEPT ![PendingIndex] =
                         [type |-> PendingBatch.type, questions |-> PendingBatch.questions,
                          reply |-> reply]]
    /\ UNCHANGED <<domVars, collectorVars, isTracking, components, appQuestions,
                   userAnswers, sidebarUi, companyId, submittedCvId, sidebarSelect, stopTimer,
                   fillVars, monitorVars>>
    /\ UNCHANGED <<jobVars, selectVars>>

\* 'await chrome.runtime.sendMessage' of getAIAnswersBatch resumes with the
\* reply, and startAutoFill with what getAIAnswersBatch makes of it
ReplyArrives(p) ==
    /\ calls[p].pc = "answers"
    /\ Replied(PendingBatch)
    /\ AnswersArrive(p, getAIAnswersBatch(PendingBatch.reply))

Responses ==
    {[success |-> FALSE, data |-> <<>>]}
        \cup {[success |-> TRUE, data |-> d] : d \in UNION {[1..n -> AiTexts] : n \in 1..NumInputs}}

\* StandardInputAdapter.fill: the field's value is replaced by the answer and
\* an input event is dispatched
FillInput(p) ==
    /\ calls[p].pc = "fill"
    /\ LET c == calls[p]
           inputElement == heap[c.toFill[c.i + 1]].inputElement
           answer == AnswerAt(c.answers, c.i + 1)
       IN  /\ value' = [value EXCEPT ![inputElement] = DOMString(answer)]
           /\ calls' = [calls EXCEPT ![p].pc = "verify"]
           /\ Commit(DispatchInput(Store, inputListeners, dcTracking, inputElement, value'),
                     calls')
    /\ UNCHANGED <<inDom, form, dcTracking, questionObserver, scanTimeout, inputListeners,
                   isTracking, components, companyId, submittedCvId, sidebarSelect,
                   stopTimer, outbox, isRunning, cancelRequested, currentQuestionIndex,
                   totalQuestions, results, returned>>
    /\ UNCHANGED monitorVars
    /\ UNCHANGED <<jobVars, selectVars>>

\* the rest of fillQuestion: triggerInputEvents, waitForValidation,
\* verifyValueSet and the promotion of the answer into the question
VerifyFill(p) ==
    /\ calls[p].pc = "verify"
    /\ LET c == calls[p]
           question == heap[c.toFill[c.i + 1]]
           answer == AnswerAt(c.answers, c.i + 1)
           s1 == DispatchInput(Store, inputListeners, dcTracking, question.inputElement, value)
           verifyResult == verifyValueSet(value[question.inputElement], answer)
       IN  /\ calls' = [calls EXCEPT ![p].pc = "sleep"]
           /\ IF verifyResult.success
              THEN /\ results' = Append(results, [questionId |-> question.id,
                                                 success |-> TRUE, error |-> NoValue])
                   /\ Commit(updateQuestionAnswer(s1, question.id, answer), calls')
              ELSE /\ results' = Append(results, FillFailure(question, verifyResult.error))
                   /\ Commit(s1, calls')
    /\ UNCHANGED <<domVars, dcTracking, questionObserver, scanTimeout, inputListeners,
                   isTracking, components, companyId, submittedCvId, sidebarSelect,
                   stopTimer, outbox, isRunning, cancelRequested, currentQuestionIndex,
                   totalQuestions, returned>>
    /\ UNCHANGED monitorVars
    /\ UNCHANGED <<jobVars, selectVars>>

\* await this.sleep(300) completes: the next iteration begins
SleepDone(p) ==
    /\ calls[p].pc = "sleep"
    /\ LoopTop(p, calls[p], calls[p].i + 1)
    /\ UNCHANGED <<domVars, dcTracking, questionObserver, scanTimeout, inputListeners,
                   isTracking, components, companyId, submittedCvId, sidebarSelect,
                   stopTimer, outbox, cancelRequested, totalQuestions>>
    /\ UNCHANGED monitorVars
    /\ UNCHANGED <<jobVars, selectVars>>

\* AutoFillManager.cancel
Cancel ==
    /\ components
    /\ ~cancelRequested
    /\ cancelRequested' = TRUE
    /\ UNCHANGED <<domVars, collectorVars, trackerVars, isRunning, currentQuestionIndex,
                   totalQuestions, results, calls, returned>>
    /\ UNCHANGED monitorVars
    /\ UNCHANGED <<jobVars, selectVars>>

(* --------------------------- specifications ---------------------------- *)

\* The tracking session: the page, the detector, the sidebar's editors.
Next ==
    \/ \E e \in Inputs : AddField(e)
    \/ \E e \in Inputs : RemoveField(e)
    \/ \E e \in Inputs, v \in PageTexts : PageInput(e, v)
    \/ ScanTimerFires
    \/ StartTracking
    \/ StopTracking
    \/ RemoveTimerFires
    \/ \E id \in QuestionIds, a \in SidebarTexts : SidebarAnswer(id, a)
    \/ \E id \in QuestionIds, t \in RenameTexts : SidebarRename(id, t)
    \/ \E id \in QuestionIds : SidebarRemove(id)

Spec == Init /\ [][Next]_vars

EmptyStore ==
    [h |-> [r \in Refs |-> NoQuestion], dq |-> <<>>, bl |-> {}, aq |-> <<>>, ua |-> EmptyMap,
     sb |-> show(NoSidebar)]

\* Tracking has just been started on a page that shows every form field,
\* some of them already filled in: the state StartTracking leaves.
InitFill ==
    /\ inDom = Inputs
    /\ form = "varied"
    /\ value \in [Inputs -> PrefillTexts]
    /\ LET s == scanForQuestions(EmptyStore, TRUE, inDom, value)
       IN  /\ heap = s.h
           /\ detectedQuestions = s.dq
           /\ deletedQuestionLabels = s.bl
           /\ appQuestions = s.aq
           /\ userAnswers = s.ua
           /\ sidebarUi = s.sb
    /\ dcTracking = TRUE
    /\ questionObserver = TRUE
    /\ scanTimeout = FALSE
    /\ inputListeners = 1
    /\ isTracking = TRUE
    /\ components = TRUE
    /\ companyId = NoValue
    /\ submittedCvId = NoValue
    /\ sidebarSelect = [companyId |-> NoValue, cvId |-> NoValue]
    /\ stopTimer = NoTimer
    /\ outbox = <<>>
    /\ isRunning = FALSE
    /\ cancelRequested = FALSE
    /\ currentQuestionIndex = 0
    /\ totalQuestions = 0
    /\ results = <<>>
    /\ calls = [p \in Procs |-> IdleCall]
    /\ returned = NoReturn
    /\ location = UrlLinkedInView
    /\ bodyText = BodyPlain
    /\ isMonitoring = TRUE
    /\ domObserver = TRUE
    /\ monitorListeners = 1
    /\ currentUrl = UrlLinkedInView
    /\ urlTimers = 0
    /\ contentTimers = 0
    /\ submitTimers = 0
    /\ confirmTimers = 0
    /\ currentStep = "job_posting"
    /\ lastPageChange = [type |-> NoValue, bit |-> FALSE]
    /\ strategies = PlainPosting
    /\ jobData = extract(strategies)
    /\ select = [options |-> <<>>, selectedIndex |-> 0]
    /\ selectResult = [called |-> FALSE]
    /\ detected = [called |-> FALSE]
    /\ waiting = NoWait

\* The auto-fill workflow and the user's edits it runs among.
NextFill ==
    \/ \E e \in Inputs, v \in PageTexts : PageInput(e, v)
    \/ \E id \in QuestionIds, a \in SidebarTexts : SidebarAnswer(id, a)
    \/ \E adapters \in BOOLEAN : StartAutoFill(adapters)
    \/ \E p \in Procs, userId \in {NoValue, "user"} : UserIdResolved(p, userId)
    \/ \E p \in Procs, response \in Responses :
           /\ response.success => Len(response.data) = Len(calls[p].toFill)
           /\ AnswersArrive(p, response)
    \/ \E p \in Procs : FillInput(p)
    \/ \E p \in Procs : VerifyFill(p)
    \/ \E p \in Procs : SleepDone(p)
    \/ Cancel

SpecFill == InitFill /\ [][NextFill]_vars

\* Tracking has been started on a page that shows every form field, empty,
\* and the user has chosen a company and a CV in the sidebar.
InitAnswers ==
    /\ inDom = Inputs
    /\ form = "varied"
    /\ value = [e \in Inputs |-> EmptyText]
    /\ LET s == scanForQuestions(EmptyStore, TRUE, inDom, value)
       IN  /\ heap = s.h
           /\ detectedQuestions = s.dq
           /\ deletedQuestionLabels = s.bl
           /\ appQuestions = s.aq
           /\ userAnswers = s.ua
           /\ sidebarUi = s.sb
    /\ dcTracking = TRUE
    /\ questionObserver = TRUE
    /\ scanTimeout = FALSE
    /\ inputListeners = 1
    /\ isTracking = TRUE
    /\ components = TRUE
    /\ companyId = "1"
    /\ submittedCvId = "1"
    /\ sidebarSelect = [companyId |-> "1", cvId |-> "1"]
    /\ stopTimer = NoTimer
    /\ outbox = <<>>
    /\ isRunning = FALSE
    /\ cancelRequested = FALSE
    /\ currentQuestionIndex = 0
    /\ totalQuestions = 0
    /\ results = <<>>
    /\ calls = [p \in Procs |-> IdleCall]
    /\ returned = NoReturn
    /\ location = UrlLinkedInView
    /\ bodyText = BodyPlain
    /\ isMonitoring = TRUE
    /\ domObserver = TRUE
    /\ monitorListeners = 1
    /\ currentUrl = UrlLinkedInView
    /\ urlTimers = 0
    /\ contentTimers = 0
    /\ submitTimers = 0
    /\ confirmTimers = 0
    /\ currentStep = "job_posting"
    /\ lastPageChange = [type |-> NoValue, bit |-> FALSE]
    /\ strategies = PlainPosting
    /\ jobData = extract(strategies)
    /\ select = [options |-> <<>>, selectedIndex |-> 0]
    /\ selectResult = [called |-> FALSE]
    /\ detected = [called |-> FALSE]
    /\ waiting = NoWait

\* The writers of userAnswers met in one session (sidebar answers, renames
\* onto a shared text, auto-fill runs that succeed) and the save that reads
\* it; detection and deletion are part of Next.
NextAnswers ==
    \/ \E id \in QuestionIds, a \in SidebarTexts : SidebarAnswer(id, a)
    \/ \E id \in QuestionIds : SidebarRename(id, TextCustom)
    \/ StartAutoFill(TRUE)
    \/ \E p \in Procs : UserIdResolved(p, "user")
    \/ \E p \in Procs, response \in {r \in Responses : r.success} :
           /\ Len(response.data) = Len(calls[p].toFill)
           /\ AnswersArrive(p, response)
    \/ \E p \in Procs : FillInput(p)
    \/ \E p \in Procs : VerifyFill(p)
    \/ \E p \in Procs : SleepDone(p)
    \/ SaveApplication
    \/ SaveResponse(FALSE)

SpecAnswers == InitAnswers /\ [][NextAnswers]_vars

\* The life of the application record over tracking sessions.
NextSession ==
    \/ \E e \in Inputs : AddField(e)
    \/ ScanTimerFires
    \/ StartTracking
    \/ StopTracking
    \/ RemoveTimerFires
    \/ \E id \in QuestionIds, a \in SidebarTexts : SidebarAnswer(id, a)
    \/ \E c \in {NoValue, "1"} : SelectCompany(c)
    \/ \E c \in {NoValue, "1"} : SelectCv(c)
    \/ SaveApplication
    \/ \E ok \in BOOLEAN : SaveResponse(ok)
    \/ StopTimerFires

SpecSession == Init /\ [][NextSession]_vars

\* The page monitor over tracking sessions.
NextMonitor ==
    \/ StartTracking
    \/ StopTracking
    \/ RemoveTimerFires
    \/ \E e \in Inputs : AddField(e)
    \/ ScanTimerFires
    \/ \E u \in Urls : PushState(u)
    \/ \E u \in Urls : PopState(u)
    \/ ClickApply
    \/ \E b \in Bodies : ContentChange(b)
    \/ SubmitForm
    \/ UrlTimerFires
    \/ ContentTimerFires
    \/ SubmitTimerFires
    \/ ConfirmTimerFires

SpecMonitor == Init /\ [][NextMonitor]_vars

\* One auto-fill run after another, with everything that can make a run or
\* one of its fills fail: a page without fields, hand-made questions without
\* an element, a missing identity, a failed round trip, an answer the
\* service could not write, a field the page removes.
InitBatch ==
    /\ inDom \in SUBSET Inputs
    /\ form = "varied"
    /\ value \in [Inputs -> {EmptyText, Txt("user", 1, 0)}]
    /\ LET s == scanForQuestions(EmptyStore, TRUE, inDom, value)
       IN  /\ heap = s.h
           /\ detectedQuestions = s.dq
           /\ deletedQuestionLabels = s.bl
           /\ appQuestions = s.aq
           /\ userAnswers = s.ua
           /\ sidebarUi = s.sb
    /\ dcTracking = TRUE
    /\ questionObserver = TRUE
    /\ scanTimeout = FALSE
    /\ inputListeners = 1
    /\ isTracking = TRUE
    /\ components = TRUE
    /\ companyId = NoValue
    /\ submittedCvId = NoValue
    /\ sidebarSelect = [companyId |-> NoValue, cvId |-> NoValue]
    /\ stopTimer = NoTimer
    /\ outbox = <<>>
    /\ isRunning = FALSE
    /\ cancelRequested = FALSE
    /\ currentQuestionIndex = 0
    /\ totalQuestions = 0
    /\ results = <<>>
    /\ calls = [p \in Procs |-> IdleCall]
    /\ returned = NoReturn
    /\ location = UrlLinkedInView
    /\ bodyText = BodyPlain
    /\ isMonitoring = TRUE
    /\ domObserver = TRUE
    /\ monitorListeners = 1
    /\ currentUrl = UrlLinkedInView
    /\ urlTimers = 0
    /\ contentTimers = 0
    /\ submitTimers = 0
    /\ confirmTimers = 0
    /\ currentStep = "job_posting"
    /\ lastPageChange = [type |-> NoValue, bit |-> FALSE]
    /\ strategies = PlainPosting
    /\ jobData = extract(strategies)
    /\ select = [options |-> <<>>, selectedIndex |-> 0]
    /\ selectResult = [called |-> FALSE]
    /\ detected = [called |-> FALSE]
    /\ waiting = NoWait

NextBatch ==
    \/ \E e \in Inputs : PageInput(e, Txt("user", Threshold + 1, 0))
    \/ \E e \in Inputs : RemoveField(e)
    \/ ShowAddQuestionForm
    \/ \E adapters \in BOOLEAN : StartAutoFill(adapters)
    \/ \E p \in Procs, userId \in {NoValue, "user"} : UserIdResolved(p, userId)
    \/ RoundTripEnds
    \/ \E p \in Procs : ReplyArrives(p)
    \/ \E p \in Procs : FillInput(p)
    \/ \E p \in Procs : VerifyFill(p)
    \/ \E p \in Procs : SleepDone(p)

SpecBatch == InitBatch /\ [][NextBatch]_vars

(* ------------------------- detectInputType ----------------------------- *)

\* number of ancestors an element of the page can have
MaxAncestors == 6

\* isWYSIWYG looks at the classes of so many ancestors
MaxDepth == 5

\* The elements detectInputType is called on: className has one of the editor
\* classes, parents[k] the k-th ancestor's className has one (at most one
\* ancestor is an editor container), dataEditor the element or an ancestor
\* has a data-editor attribute, contentEditable, tagName, react the element
\* has a __reactProps / __reactFiber key, vue it has __vue__ or __vnode.
Elements ==
    { el \in [className : BOOLEAN,
              parents : UNION {[1..n -> BOOLEAN] : n \in 0..MaxAncestors},
              dataEditor : BOOLEAN,
              contentEditable : BOOLEAN,
              tagName : {"SELECT", "DIV"},
              react : BOOLEAN,
              vue : BOOLEAN] :
        /\ Cardinality({k \in 1..Len(el.parents) : el.parents[k]}) <= 1
        /\ el.tagName = "SELECT" => ~el.contentEditable }

\* the while loop of isWYSIWYG at ancestor number depth + 1
RECURSIVE ParentIsEditor(_, _)
ParentIsEditor(element, depth) ==
    IF depth + 1 > Len(element.parents) \/ ~(depth < MaxDepth) THEN FALSE
    ELSE IF element.parents[depth + 1] THEN TRUE
    ELSE ParentIsEditor(element, depth + 1)

\* InputAdapterManager.isWYSIWYG
isWYSIWYG(element) ==
    IF element.className THEN TRUE
    ELSE IF ParentIsEditor(element, 0) THEN TRUE
    ELSE element.dataEditor

\* InputAdapterManager.isReactInput
isReactInput(element) == element.react

\* InputAdapterManager.isVueInput
isVueInput(element) == element.vue

\* a detection that tests the frameworks before the tag
detectInputTypeFrameworksFirst(element) ==
    IF isWYSIWYG(element) THEN "wysiwyg"
    ELSE IF element.contentEditable THEN "contentEditable"
    ELSE IF isReactInput(element) THEN "react"
    ELSE IF isVueInput(element) THEN "vue"
    ELSE IF element.tagName = "SELECT" THEN "select"
    ELSE "standard"

\* InputAdapterManager.detectInputType
detectInputType(element) ==
    IF isWYSIWYG(element) THEN "wysiwyg"
    ELSE IF element.contentEditable THEN "contentEditable"
    ELSE IF element.tagName = "SELECT" THEN "select"
    ELSE IF isReactInput(element) THEN "react"
    ELSE IF isVueInput(element) THEN "vue"
    ELSE "standard"

\* fillQuestion asks for the type of an element
DetectInputType(element) ==
    /\ ~components
    /\ detected' = [called |-> TRUE, element |-> element,
                    inputType |-> detectInputType(element)]
    /\ UNCHANGED <<domVars, collectorVars, trackerVars, fillVars, monitorVars, jobVars,
                   select, selectResult, waiting>>

InitDetect ==
    /\ inDom = {}
    /\ form = "varied"
    /\ value = [e \in Inputs |-> EmptyText]
    /\ heap = [r \in Refs |-> NoQuestion]
    /\ dcTracking = FALSE
    /\ questionObserver = FALSE
    /\ scanTimeout = FALSE
    /\ inputListeners = 0
    /\ detectedQuestions = <<>>
    /\ deletedQuestionLabels = {}
    /\ isTracking = FALSE
    /\ components = FALSE
    /\ appQuestions = <<>>
    /\ userAnswers = EmptyMap
    /\ sidebarUi = NoSidebar
    /\ companyId = NoValue
    /\ submittedCvId = NoValue
    /\ sidebarSelect = [companyId |-> NoValue, cvId |-> NoValue]
    /\ stopTimer = NoTimer
    /\ outbox = <<>>
    /\ isRunning = FALSE
    /\ cancelRequested = FALSE
    /\ currentQuestionIndex = 0
    /\ totalQuestions = 0
    /\ results = <<>>
    /\ calls = [p \in Procs |-> IdleCall]
    /\ returned = NoReturn
    /\ location = UrlLinkedInView
    /\ bodyText = BodyPlain
    /\ isMonitoring = FALSE
    /\ domObserver = FALSE
    /\ monitorListeners = 0
    /\ currentUrl = UrlLinkedInView
    /\ urlTimers = 0
    /\ contentTimers = 0
    /\ submitTimers = 0
    /\ confirmTimers = 0
    /\ currentStep = "job_posting"
    /\ lastPageChange = [type |-> NoValue, bit |-> FALSE]
    /\ strategies = PlainPosting
    /\ jobData = NoJobData
    /\ select = [options |-> <<>>, selectedIndex |-> 0]
    /\ selectResult = [called |-> FALSE]
    /\ detected = [called |-> FALSE]
    /\ waiting = NoWait

NextDetect == \E element \in Elements : DetectInputType(element)

SpecDetect == InitDetect /\ [][NextDetect]_vars

(* ------------------------- waitForValidation --------------------------- *)

\* the timeout fillQuestion passes
ValidationTimeout == 500

\* the pause between two looks at the element, in ms
PollStep == 50

\* what waitForValidation looks for: validity.valid === false, one of the
\* classes error / invalid / is-invalid, an error message next to the element
ErrorSigns == {"validity", "class", "sibling"}

\* waitForValidation(element, timeout) is called: await this.sleep(100)
WaitForValidation(timeout) ==
    /\ ~components
    /\ waiting.pc = "idle"
    /\ waiting' = [waiting EXCEPT !.pc = "settle", !.timeout = timeout,
                                        !.iterations = 0, !.polls = 0]
    /\ UNCHANGED <<domVars, collectorVars, trackerVars, fillVars, monitorVars, jobVars,
                   select, selectResult, detected>>

\* the first sleep ends: maxIterations is computed and the loop is entered
SettleDone ==
    /\ waiting.pc = "settle"
    /\ waiting' = [waiting EXCEPT !.pc = "loop"]
    /\ UNCHANGED <<domVars, collectorVars, trackerVars, fillVars, monitorVars, jobVars,
                   select, selectResult, detected>>

\* a pass through the loop that forgets iterations++
PollUncounted ==
    /\ waiting.pc = "loop"
    /\ LET maxIterations == waiting.timeout \div PollStep
       IN  IF waiting.iterations < maxIterations
           THEN IF waiting.errors # {}
                THEN waiting' = [waiting EXCEPT !.polls = @ + 1]
                ELSE waiting' = [waiting EXCEPT !.pc = "final", !.polls = @ + 1]
           ELSE waiting' = [waiting EXCEPT !.pc = "final"]
    /\ UNCHANGED <<domVars, collectorVars, trackerVars, fillVars, monitorVars, jobVars,
                   select, selectResult, detected>>

\* the loop's test and one pass: the element is looked at and, if it shows an
\* error sign, sleep(50) and iterations++ (the timeouts used are multiples
\* of 50, so timeout / 50 is a whole number)
Poll ==
    /\ waiting.pc = "loop"
    /\ LET maxIterations == waiting.timeout \div PollStep
       IN  IF waiting.iterations < maxIterations
           THEN IF waiting.errors # {}
                THEN waiting' = [waiting EXCEPT !.iterations = @ + 1, !.polls = @ + 1]
                ELSE waiting' = [waiting EXCEPT !.pc = "final", !.polls = @ + 1]
           ELSE waiting' = [waiting EXCEPT !.pc = "final"]
    /\ UNCHANGED <<domVars, collectorVars, trackerVars, fillVars, monitorVars, jobVars,
                   select, selectResult, detected>>

\* the final sleep(100) ends and waitForValidation returns
FinalDone ==
    /\ waiting.pc = "final"
    /\ waiting' = [waiting EXCEPT !.pc = "idle"]
    /\ UNCHANGED <<domVars, collectorVars, trackerVars, fillVars, monitorVars, jobVars,
                   select, selectResult, detected>>

\* the page's own validation shows or clears an error sign
ErrorSignChanges(sign) ==
    /\ ~components
    /\ waiting' = [waiting EXCEPT !.errors =
                          IF sign \in @ THEN @ \ {sign} ELSE @ \cup {sign}]
    /\ UNCHANGED <<domVars, collectorVars, trackerVars, fillVars, monitorVars, jobVars,
                   select, selectResult, detected>>

InitValidation ==
    /\ inDom = {}
    /\ form = "varied"
    /\ value = [e \in Inputs |-> EmptyText]
    /\ heap = [r \in Refs |-> NoQuestion]
    /\ dcTracking = FALSE
    /\ questionObserver = FALSE
    /\ scanTimeout = FALSE
    /\ inputListeners = 0
    /\ detectedQuestions = <<>>
    /\ deletedQuestionLabels = {}
    /\ isTracking = FALSE
    /\ components = FALSE
    /\ appQuestions = <<>>
    /\ userAnswers = EmptyMap
    /\ sidebarUi = NoSidebar
    /\ companyId = NoValue
    /\ submittedCvId = NoValue
    /\ sidebarSelect = [companyId |-> NoValue, cvId |-> NoValue]
    /\ stopTimer = NoTimer
    /\ outbox = <<>>
    /\ isRunning = FALSE
    /\ cancelRequested = FALSE
    /\ currentQuestionIndex = 0
    /\ totalQuestions = 0
    /\ results = <<>>
    /\ calls = [p \in Procs |-> IdleCall]
    /\ returned = NoReturn
    /\ location = UrlLinkedInView
    /\ bodyText = BodyPlain
    /\ isMonitoring = FALSE
    /\ domObserver = FALSE
    /\ monitorListeners = 0
    /\ currentUrl = UrlLinkedInView
    /\ urlTimers = 0
    /\ contentTimers = 0
    /\ submitTimers = 0
    /\ confirmTimers = 0
    /\ currentStep = "job_posting"
    /\ lastPageChange = [type |-> NoValue, bit |-> FALSE]
    /\ strategies = PlainPosting
    /\ jobData = NoJobData
    /\ select = [options |-> <<>>, selectedIndex |-> 0]
    /\ selectResult = [called |-> FALSE]
    /\ detected = [called |-> FALSE]
    /\ waiting = NoWait

NextValidation ==
    \/ WaitForValidation(ValidationTimeout)
    \/ SettleDone
    \/ Poll
    \/ FinalDone
    \/ \E sign \in ErrorSigns : ErrorSignChanges(sign)

\* the timers of sleep fire
SpecValidation ==
    InitValidation /\ [][NextValidation]_vars /\ WF_vars(SettleDone \/ Poll \/ FinalDone)

(* --------------------------- the select adapter ------------------------- *)

\* the option lists of the page's select: values equal to the texts, short
\* codes, numeric ids, and two options sharing the empty value
SelectOptions ==
    { <<[text |-> <<"N", "e", "w", " ", "Y", "o", "r", "k">>, value |-> <<"N", "e", "w", " ", "Y", "o", "r", "k">>],
        [text |-> <<"S", "a", "n", " ", "F", "r", "a", "n", "c", "i", "s", "c", "o">>, value |-> <<"S", "a", "n", " ", "F", "r", "a", "n", "c", "i", "s", "c", "o">>]>>,
      <<[text |-> <<"N", "e", "w", " ", "Y", "o", "r", "k">>, value |-> <<"N", "Y">>],
        [text |-> <<"S", "a", "n", " ", "F", "r", "a", "n", "c", "i", "s", "c", "o">>, value |-> <<"S", "F">>]>>,
      <<[text |-> <<"N", "e", "w", " ", "Y", "o", "r", "k">>, value |-> <<"1">>],
        [text |-> <<"S", "a", "n", " ", "F", "r", "a", "n", "c", "i", "s", "c", "o">>, value |-> <<"2">>]>>,
      <<[text |-> <<"N", "e", "w", " ", "Y", "o", "r", "k">>, value |-> <<>>],
        [text |-> <<"S", "a", "n", " ", "F", "r", "a", "n", "c", "i", "s", "c", "o">>, value |-> <<>>]>> }

\* the answers fillQuestion is called with
SelectAnswers ==
    { <<"f", "r", "a", "n", "c", "i", "s", "c", "o">>, <<"F", "R", "A", "N", "C", "I", "S", "C", "O">>, <<"B", "o", "s", "t", "o", "n">>, <<"n", "e", "w">>, <<"s", "f">>, <<"o">>, <<" ", "y", "o", "r", "k", " ">>,
      <<"S", "a", "n", " ", "F", "r", "a", "n", "c", "i", "s", "c", "o">>, <<>> }

\* SelectAdapter.fill: the element afterwards, the number of change events
\* dispatched and the result; element.value = v selects the first option
\* whose value is v
SelectAdapterFill(element, target) ==
    LET options == element.options
        Matches(opt) == \/ Includes(toLowerCase(opt.text), toLowerCase(target))
                        \/ Includes(toLowerCase(opt.value), toLowerCase(target))
    IN  IF \E i \in 1..Len(options) : Matches(options[i])
        THEN LET i == CHOOSE i \in 1..Len(options) :
                          Matches(options[i]) /\ \A j \in 1..(i - 1) : ~Matches(options[j])
                 k == CHOOSE k \in 1..Len(options) :
                          /\ options[k].value = options[i].value
                          /\ \A j \in 1..(k - 1) : options[j].value # options[i].value
             IN  [element |-> [element EXCEPT !.selectedIndex = k],
                  changes |-> 1,
                  result |-> [success |-> TRUE, error |-> NoValue]]
        ELSE [element |-> element,
              changes |-> 0,
              result |-> [success |-> FALSE, error |-> "No matching option found"]]

\* the user picks option i of the select
PickOption(i) ==
    /\ i \in 1..Len(select.options)
    /\ i # select.selectedIndex
    /\ select' = [select EXCEPT !.selectedIndex = i]
    /\ UNCHANGED <<domVars, collectorVars, trackerVars, fillVars, monitorVars, jobVars,
                   selectResult, detected, waiting>>

\* AutoFillManager.fillQuestion on a question whose inputElement is the
\* select, before tracking was ever started: tracker.dataCollector does not
\* exist, so a verified answer is promoted nowhere
FillSelect(answer) ==
    /\ ~components
    /\ select.options # <<>>
    /\ LET fillResult == SelectAdapterFill(select, answer)
           actualValue == fillResult.element.options[fillResult.element.selectedIndex].value
           AsText(s) == Txt("select", Len(s), Len(s) - Len(trim(s)))
           verifyResult == verifyValueSet(AsText(actualValue), AsText(answer))
       IN  /\ select' = fillResult.element
           /\ selectResult' =
                 [called |-> TRUE,
                  answer |-> answer,
                  before |-> select.selectedIndex,
                  after |-> fillResult.element.selectedIndex,
                  changes |-> fillResult.changes,
                  fill |-> fillResult.result,
                  result |->
                     IF ~fillResult.result.success THEN fillResult.result
                     ELSE IF ~verifyResult.success
                     THEN [success |-> FALSE, error |-> verifyResult.error]
                     ELSE [success |-> TRUE, error |-> NoValue]]
    /\ UNCHANGED <<domVars, collectorVars, trackerVars, fillVars, monitorVars, jobVars,
                   detected, waiting>>

\* a one-letter text for what a strategy found: L structured data, S the
\* site-specific rules, M the meta tags, D the generic DOM analysis
Finds(letter) == {<<>>, <<letter>>}

\* the postings a tab can show: each strategy finds or misses the title and
\* one or two other fields; extractFromMetaTags returns null without a title
\* and a description, extractFromDOM always returns a record; a JobPosting
\* has no jobLocation or an empty list of them
Postings ==
  { pg \in
    [fromJSONLD :
        {NoSource} \cup
        {Source([NoJobData EXCEPT !.jobTitle = t, !.companyName = c,
                                  !.jobDescription = d, !.salary = s]) :
            t \in Finds("L"), c \in Finds("L"), d \in Finds("L"), s \in Finds("L")},
     fromSiteSpecific :
        {NoSource} \cup
        {Source([NoJobData EXCEPT !.jobTitle = t, !.salary = s]) :
            t \in Finds("S"), s \in Finds("S")},
     fromMeta :
        {NoSource} \cup
        {Source([NoJobData EXCEPT !.jobTitle = td[1], !.jobDescription = td[2]]) :
            td \in {x \in Finds("M") \X Finds("M") : x[1] # <<>> \/ x[2] # <<>>}},
     fromDOM :
        {Source([NoJobData EXCEPT !.jobTitle = t, !.salary = s,
                                  !.jobType = <<"F", "u", "l", "l", " ", "T", "i", "m", "e">>]) :
            t \in Finds("D"), s \in Finds("D")},
     jobLocation : {"absent", "emptyArray"}] :
    ~pg.fromJSONLD.found => pg.jobLocation = "absent" }

\* Tracking is started and stopped on any of the postings.
InitExtract ==
    /\ inDom = {}
    /\ form = "varied"
    /\ value = [e \in Inputs |-> EmptyText]
    /\ heap = [r \in Refs |-> NoQuestion]
    /\ dcTracking = FALSE
    /\ questionObserver = FALSE
    /\ scanTimeout = FALSE
    /\ inputListeners = 0
    /\ detectedQuestions = <<>>
    /\ deletedQuestionLabels = {}
    /\ isTracking = FALSE
    /\ components = FALSE
    /\ appQuestions = <<>>
    /\ userAnswers = EmptyMap
    /\ sidebarUi = NoSidebar
    /\ companyId = NoValue
    /\ submittedCvId = NoValue
    /\ sidebarSelect = [companyId |-> NoValue, cvId |-> NoValue]
    /\ stopTimer = NoTimer
    /\ outbox = <<>>
    /\ isRunning = FALSE
    /\ cancelRequested = FALSE
    /\ currentQuestionIndex = 0
    /\ totalQuestions = 0
    /\ results = <<>>
    /\ calls = [p \in Procs |-> IdleCall]
    /\ returned = NoReturn
    /\ location = UrlLinkedInView
    /\ bodyText = BodyPlain
    /\ isMonitoring = FALSE
    /\ domObserver = FALSE
    /\ monitorListeners = 0
    /\ currentUrl = UrlLinkedInView
    /\ urlTimers = 0
    /\ contentTimers = 0
    /\ submitTimers = 0
    /\ confirmTimers = 0
    /\ currentStep = "job_posting"
    /\ lastPageChange = [type |-> NoValue, bit |-> FALSE]
    /\ strategies \in Postings
    /\ jobData = NoJobData
    /\ select = [options |-> <<>>, selectedIndex |-> 0]
    /\ selectResult = [called |-> FALSE]
    /\ detected = [called |-> FALSE]
    /\ waiting = NoWait

NextExtract ==
    \/ StartTracking
    \/ StopTracking
    \/ RemoveTimerFires

SpecExtract == InitExtract /\ [][NextExtract]_vars

\* Tracking is started and stopped on postings whose description, found by
\* the generic DOM analysis alone, is about MaxDescription characters long:
\* letters, with at most one space, line feed or period near the cap
InitTruncate ==
    /\ inDom = {}
    /\ form = "varied"
    /\ value = [e \in Inputs |-> EmptyText]
    /\ heap = [r \in Refs |-> NoQuestion]
    /\ dcTracking = FALSE
    /\ questionObserver = FALSE
    /\ scanTimeout = FALSE
    /\ inputListeners = 0
    /\ detectedQuestions = <<>>
    /\ deletedQuestionLabels = {}
    /\ isTracking = FALSE
    /\ components = FALSE
    /\ appQuestions = <<>>
    /\ userAnswers = EmptyMap
    /\ sidebarUi = NoSidebar
    /\ companyId = NoValue
    /\ submittedCvId = NoValue
    /\ sidebarSelect = [companyId |-> NoValue, cvId |-> NoValue]
    /\ stopTimer = NoTimer
    /\ outbox = <<>>
    /\ isRunning = FALSE
    /\ cancelRequested = FALSE
    /\ currentQuestionIndex = 0
    /\ totalQuestions = 0
    /\ results = <<>>
    /\ calls = [p \in Procs |-> IdleCall]
    /\ returned = NoReturn
    /\ location = UrlLinkedInView
    /\ bodyText = BodyPlain
    /\ isMonitoring = FALSE
    /\ domObserver = FALSE
    /\ monitorListeners = 0
    /\ currentUrl = UrlLinkedInView
    /\ urlTimers = 0
    /\ contentTimers = 0
    /\ submitTimers = 0
    /\ confirmTimers = 0
    /\ currentStep = "job_posting"
    /\ lastPageChange = [type |-> NoValue, bit |-> FALSE]
    /\ \E len \in {MaxDescription - 1, MaxDescription, MaxDescription + 1, MaxDescription + 30},
          at \in {MaxDescription - 120, MaxDescription - 90, MaxDescription - 40,
                  MaxDescription - 15, MaxDescription - 5, MaxDescription, MaxDescription + 1},
          sep \in {" ", "newline", ".", "a"} :
            strategies = [PlainPosting EXCEPT
                             !.fromMeta = NoSource,
                             !.fromDOM.data.jobDescription =
                                 [i \in 1..len |-> IF i = at THEN sep ELSE "a"]]
    /\ jobData = NoJobData
    /\ select = [options |-> <<>>, selectedIndex |-> 0]
    /\ selectResult = [called |-> FALSE]
    /\ detected = [called |-> FALSE]
    /\ waiting = NoWait

SpecTruncate == InitTruncate /\ [][NextExtract]_vars

\* fillQuestion is called, again and again, on a page with one select, on
\* which the user picks options
InitSelect ==
    /\ inDom = {}
    /\ form = "varied"
    /\ value = [e \in Inputs |-> EmptyText]
    /\ heap = [r \in Refs |-> NoQuestion]
    /\ dcTracking = FALSE
    /\ questionObserver = FALSE
    /\ scanTimeout = FALSE
    /\ inputListeners = 0
    /\ detectedQuestions = <<>>
    /\ deletedQuestionLabels = {}
    /\ isTracking = FALSE
    /\ components = FALSE
    /\ appQuestions = <<>>
    /\ userAnswers = EmptyMap
    /\ sidebarUi = NoSidebar
    /\ companyId = NoValue
    /\ submittedCvId = NoValue
    /\ sidebarSelect = [companyId |-> NoValue, cvId |-> NoValue]
    /\ stopTimer = NoTimer
    /\ outbox = <<>>
    /\ isRunning = FALSE
    /\ cancelRequested = FALSE
    /\ currentQuestionIndex = 0
    /\ totalQuestions = 0
    /\ results = <<>>
    /\ calls = [p \in Procs |-> IdleCall]
    /\ returned = NoReturn
    /\ location = UrlLinkedInView
    /\ bodyText = BodyPlain
    /\ isMonitoring = FALSE
    /\ domObserver = FALSE
    /\ monitorListeners = 0
    /\ currentUrl = UrlLinkedInView
    /\ urlTimers = 0
    /\ contentTimers = 0
    /\ submitTimers = 0
    /\ confirmTimers = 0
    /\ currentStep = "job_posting"
    /\ lastPageChange = [type |-> NoValue, bit |-> FALSE]
    /\ strategies = PlainPosting
    /\ jobData = NoJobData
    /\ \E options \in SelectOptions, i \in 1..2 :
          select = [options |-> options, selectedIndex |-> i]
    /\ selectResult = [called |-> FALSE]
    /\ detected = [called |-> FALSE]
    /\ waiting = NoWait

NextSelect ==
    \/ \E i \in 1..2 : PickOption(i)
    \/ \E answer \in SelectAnswers : FillSelect(answer)

SpecSelect == InitSelect /\ [][NextSelect]_vars

(* ------------------- auto-fill runs to their return -------------------- *)

\* startAutoFill called again and again on the forms of InitBatch, with the
\* user cancelling at any time
NextReturns ==
    \/ \E adapters \in BOOLEAN : StartAutoFill(adapters)
    \/ \E p \in Procs, userId \in {NoValue, "user"} : UserIdResolved(p, userId)
    \/ \E p \in Procs, response \in Responses :
           /\ response.success => Len(response.data) = Len(calls[p].toFill)
           /\ AnswersArrive(p, response)
    \/ \E p \in Procs : FillInput(p)
    \/ \E p \in Procs : VerifyFill(p)
    \/ \E p \in Procs : SleepDone(p)
    \/ Cancel

\* what invocation p awaits completes: getUserId resolves, the answer request
\* is replied to, the adapter's fill and the verification delay end, the
\* 300 ms sleep ends
Completes(p) ==
    \/ \E userId \in {NoValue, "user"} : UserIdResolved(p, userId)
    \/ \E response \in Responses :
           /\ response.success => Len(response.data) = Len(calls[p].toFill)
           /\ AnswersArrive(p, response)
    \/ FillInput(p)
    \/ VerifyFill(p)
    \/ SleepDone(p)

SpecReturns ==
    InitBatch /\ [][NextReturns]_vars /\ \A p \in Procs : WF_vars(Completes(p))

(* ------------------------ saving a posting ----------------------------- *)

\* Tracking sessions on the postings of SpecExtract in which the user picks
\* a company and a CV and saves; the sidebar's job fields hold what
\* updateJobData put there, the extracted values.
NextSave ==
    \/ StartTracking
    \/ StopTracking
    \/ RemoveTimerFires
    \/ SelectCompany("1")
    \/ SelectCv("1")
    \/ SaveApplication
    \/ \E ok \in BOOLEAN : SaveResponse(ok)
    \/ StopTimerFires

SpecSave == InitExtract /\ [][NextSave]_vars

(* ------------------- a page repeating one question --------------------- *)

\* Init on a form whose fields all carry the label "Why join us?"
InitSameLabel ==
    /\ inDom \in SUBSET Inputs
    /\ form = "repeated"
    /\ value = [e \in Inputs |-> EmptyText]
    /\ heap = [r \in Refs |-> NoQuestion]
    /\ dcTracking = FALSE
    /\ questionObserver = FALSE
    /\ scanTimeout = FALSE
    /\ inputListeners = 0
    /\ detectedQuestions = <<>>
    /\ deletedQuestionLabels = {}
    /\ isTracking = FALSE
    /\ components = FALSE
    /\ appQuestions = <<>>
    /\ userAnswers = EmptyMap
    /\ sidebarUi = NoSidebar
    /\ companyId = NoValue
    /\ submittedCvId = NoValue
    /\ sidebarSelect = [companyId |-> NoValue, cvId |-> NoValue]
    /\ stopTimer = NoTimer
    /\ outbox = <<>>
    /\ isRunning = FALSE
    /\ cancelRequested = FALSE
    /\ currentQuestionIndex = 0
    /\ totalQuestions = 0
    /\ results = <<>>
    /\ calls = [p \in Procs |-> IdleCall]
    /\ returned = NoReturn
    /\ location = UrlLinkedInView
    /\ bodyText = BodyPlain
    /\ isMonitoring = FALSE
    /\ domObserver = FALSE
    /\ monitorListeners = 0
    /\ currentUrl = UrlLinkedInView
    /\ urlTimers = 0
    /\ contentTimers = 0
    /\ submitTimers = 0
    /\ confirmTimers = 0
    /\ currentStep = "job_posting"
    /\ lastPageChange = [type |-> NoValue, bit |-> FALSE]
    /\ strategies = PlainPosting
    /\ jobData = NoJobData
    /\ select = [options |-> <<>>, selectedIndex |-> 0]
    /\ selectResult = [called |-> FALSE]
    /\ detected = [called |-> FALSE]
    /\ waiting = NoWait

NextSameLabel ==
    \/ \E e \in Inputs : AddField(e)
    \/ \E e \in Inputs, v \in PageTexts : PageInput(e, v)
    \/ ScanTimerFires
    \/ StartTracking
    \/ StopTracking
    \/ RemoveTimerFires

SpecSameLabel == InitSameLabel /\ [][NextSameLabel]_vars

(* ---------------------- the sidebar's question list --------------------- *)

\* the setTimeout of SidebarManager.updateQuestions fires, 3 s after the last
\* notification that changed the count: the list shows the questions of that
\* notification
RebuildTimerFires ==
    /\ sidebarUi.timeout # <<>>
    /\ sidebarUi' = [rebuildQuestionsUI(sidebarUi, sidebarUi.timeout[1]) EXCEPT !.timeout = <<>>]
    /\ UNCHANGED <<domVars, collectorVars, isTracking, components, appQuestions,
                   userAnswers, companyId, submittedCvId, sidebarSelect, stopTimer,
                   outbox, fillVars>>
    /\ UNCHANGED monitorVars
    /\ UNCHANGED <<jobVars, selectVars>>

\* A tracking session seen from the sidebar: the page gets fields, the user
\* answers, removes and adds questions, and the debounced rebuild runs.
NextSidebar ==
    \/ \E e \in Inputs : AddField(e)
    \/ ScanTimerFires
    \/ StartTracking
    \/ StopTracking
    \/ RemoveTimerFires
    \/ \E id \in QuestionIds, a \in SidebarTexts : SidebarAnswer(id, a)
    \/ \E id \in QuestionIds : SidebarRemove(id)
    \/ ShowAddQuestionForm
    \/ RebuildTimerFires

SpecSidebar == Init /\ [][NextSidebar]_vars

(* ------------------------- auto-fill: properties ----------------------- *)

Active == {p \in Procs : calls[p].pc # "idle"}

\* C1: while an invocation is in flight a further startAutoFill call is
\* answered with the "already running" failure and changes nothing else (no
\* request sent, no field written, no call started, results, cancelRequested
\* and the progress counters as they were); a running invocation's results
\* are only ever appended to and no second invocation starts beside it, so
\* at most one fill loop is active.
ExclusiveAutoFill ==
    /\ [](Cardinality(Active) <= 1)
    /\ [][(returned' # returned /\ returned' = AlreadyRunning) =>
            /\ isRunning
            /\ UNCHANGED <<domVars, collectorVars, trackerVars, isRunning,
                           cancelRequested, currentQuestionIndex, totalQuestions,
                           results, calls>>]_vars
    /\ [][(isRunning /\ isRunning') =>
            /\ \A p \in Procs : calls[p].pc = "idle" => calls'[p].pc = "idle"
            /\ Len(results') >= Len(results)
            /\ SubSeq(results', 1, Len(results)) = results
            /\ currentQuestionIndex' >= currentQuestionIndex
            /\ (cancelRequested => cancelRequested')]_vars

\* a call was rejected while the running invocation was inside its loop
\* with a result already recorded
RejectedWhileRunning ==
    /\ returned = AlreadyRunning
    /\ isRunning
    /\ \E p \in Procs : calls[p].pc \in {"fill", "verify", "sleep"}
    /\ Len(results) >= 1

UserText(v) == v.tag = "user" /\ v.len > 0

\* C2: no step of auto-fill writes an answer into a form field that holds
\* non-empty text the user entered.
NeverOverwritesUserText ==
    [][\A e \in Inputs :
         (value'[e] # value[e] /\ value'[e].tag = "ai") => ~UserText(value[e])]_vars

\* the questions among those passed to the call in slot p whose answer is empty
EmptyNow(p) == {r \in Range(calls[p].questions) : heap[r].answer.len = 0}

\* C3 (as amended): the candidate set is exactly the questions passed in
\* whose answer is empty when the filter runs, which is after the identity
\* lookup has completed; the request carries their texts in order, only
\* their fields are ever written by the run, and when there is none no
\* request is sent and the result reports filled 0.
CandidatesEmptyAtFilter ==
    /\ [][\A p \in Procs :
            (calls[p].pc = "userId" /\ calls'[p].pc = "answers") =>
                /\ EmptyNow(p) # {}
                /\ Range(calls'[p].toFill) = EmptyNow(p)
                /\ outbox' = Append(outbox,
                       [type |-> "AUTO_FILL_GET_ANSWERS_BATCH",
                        questions |-> [i \in 1..Len(calls'[p].toFill) |->
                                          heap[calls'[p].toFill[i]].text]])]_vars
    /\ [][\A p \in Procs :
            (calls[p].pc = "userId" /\ calls'[p].pc = "idle" /\ returned'.success) =>
                /\ EmptyNow(p) = {}
                /\ outbox' = outbox
                /\ returned'.filled = 0
                /\ value' = value]_vars
    /\ [][\A e \in Inputs :
            (value'[e] # value[e] /\ value'[e].tag = "ai") =>
                \E p \in Procs : \E r \in Range(calls[p].toFill) :
                    heap[r].inputElement = e]_vars

\* the filter left out an answered question and kept an unanswered one
SomeQuestionSkipped ==
    \E p \in Procs :
        /\ calls[p].pc = "answers"
        /\ Len(calls[p].toFill) = 1
        /\ Len(calls[p].questions) = 2

\* C3 (as claimed): the candidate set is the questions whose answer was
\* empty when startAutoFill was called.
CandidatesEmptyAtInvocation ==
    [][\A p \in Procs :
         (calls[p].pc = "userId" /\ calls'[p].pc = "answers") =>
             Range(calls'[p].toFill) = calls[p].emptyAtCall]_vars

\* the fill loop of slot p ends at the top of an iteration with the
\* cancellation flag up
CancelObserved(p) ==
    calls[p].pc = "sleep" /\ calls'[p].pc = "idle" /\ cancelRequested

\* C4 (as amended): a cancel during the fill loop lets the fill in progress
\* record its result, no later question is started, and the report has
\* cancelled: true, a filled count equal to the number of questions filled
\* successfully and filled + failed equal to the number processed.
CancelledReportCounts ==
    /\ [][\A p \in Procs : CancelObserved(p) =>
            /\ returned'.success
            /\ returned'.cancelled
            /\ returned'.filled = Count(results, TRUE)
            /\ returned'.filled + returned'.failed = currentQuestionIndex
            /\ value' = value]_vars
    /\ [][\A p \in Procs :
            (cancelRequested /\ calls[p].pc \in {"answers", "sleep"}) =>
                calls'[p].pc \notin {"fill", "verify"}]_vars
    /\ [][\A p \in Procs :
            (calls[p].pc = "verify" /\ calls'[p].pc # "verify") =>
                /\ calls'[p].pc = "sleep"
                /\ Len(results') = Len(results) + 1]_vars

\* a cancelled run has returned after one fill that succeeded and one that failed
CancelledAfterFailure ==
    /\ "cancelled" \in DOMAIN returned
    /\ returned.cancelled
    /\ returned.filled = 1
    /\ returned.failed = 1

\* C4 (as claimed): the cancelled report's filled count is the number of
\* questions processed.
CancelledFilledIsProcessed ==
    [][\A p \in Procs : CancelObserved(p) =>
         returned'.cancelled /\ returned'.filled = currentQuestionIndex]_vars

(* ----------------------- tracking: properties -------------------------- *)

\* the ids under which detectedQuestions dq holds questions of heap h
IdsOf(h, dq) == {h[dq[i]].id : i \in 1..Len(dq)}

\* the question detectedQuestions dq holds under id
QuestionOf(h, dq, id) == h[RefOf(h, dq, id)]

\* C5: for every tracked question, its answer has 100 characters or more
\* exactly if userAnswers has an entry under the question's text.
AnswerLengthIffEntry ==
    \A id \in QuestionIds :
        LET question == QuestionOf(heap, detectedQuestions, id)
        IN  question.answer.len >= Threshold <=> question.text \in DOMAIN userAnswers

SaveMessages == {i \in 1..Len(outbox) : outbox[i].type = "SAVE_TRACKED_APPLICATION"}

\* C6: every value stored in userAnswers has 100 characters or more, and so
\* has the answer of every question of a SAVE_TRACKED_APPLICATION message.
OnlyLongAnswersPersisted ==
    /\ \A t \in DOMAIN userAnswers : userAnswers[t].len >= Threshold
    /\ \A i \in SaveMessages : \A q \in outbox[i].questions : q.answer.len >= Threshold

\* a save is under way that carries a question, while another tracked
\* question has an answer too short to be stored
SavedWithoutShortAnswer ==
    /\ \E i \in SaveMessages : outbox[i].questions # {}
    /\ \E id \in QuestionIds :
           LET question == QuestionOf(heap, detectedQuestions, id)
           IN  /\ question.answer.len > 0
               /\ question.answer.len < Threshold
               /\ question.text \notin DOMAIN userAnswers

\* the key removeQuestion puts on the blacklist for a question
BlacklistKey(question) ==
    IF question.normalizedText # <<>> THEN question.normalizedText
    ELSE normalizeQuestionText(question.text)

\* C7: a deleted question's normalized text T (the normalizedText recorded
\* when it was detected) is on the blacklist from the deletion on, the
\* blacklist loses no entry until tracking is stopped, and no step registers
\* a question whose text normalizes to an entry of the blacklist.
BlacklistHolds ==
    /\ [][\A id \in IdsOf(heap, detectedQuestions) \ IdsOf(heap', detectedQuestions') :
            BlacklistKey(QuestionOf(heap, detectedQuestions, id))
                \in deletedQuestionLabels']_vars
    /\ [][deletedQuestionLabels \subseteq deletedQuestionLabels'
            \/ (dcTracking /\ ~dcTracking')]_vars
    /\ [][\A id \in IdsOf(heap', detectedQuestions') \ IdsOf(heap, detectedQuestions) :
            LET T == normalizeQuestionText(QuestionOf(heap', detectedQuestions', id).text)
            IN  T \notin deletedQuestionLabels /\ T \notin deletedQuestionLabels']_vars

\* with tracking on and no rescan pending, the page shows a field whose
\* label normalizes to a blacklisted text and which has no question
BlacklistedFieldSkipped ==
    /\ dcTracking
    /\ ~scanTimeout
    /\ \E e \in inDom :
           /\ Scanned[e].valid
           /\ Scanned[e].normalizedText \in deletedQuestionLabels
           /\ Scanned[e].id \notin QuestionIds

\* C8: a step that deletes or renames a question (it changes no answer)
\* leaves the userAnswers entry of every other question, one that stays
\* tracked under the text it had, in place and with its value.
OthersEntriesKept ==
    [][LET before == IdsOf(heap, detectedQuestions)
           after == IdsOf(heap', detectedQuestions')
           Old(id) == QuestionOf(heap, detectedQuestions, id)
           New(id) == QuestionOf(heap', detectedQuestions', id)
       IN  (\A id \in before \cap after : New(id).answer = Old(id).answer) =>
               \A id \in before \cap after :
                   (New(id).text = Old(id).text /\ Old(id).text \in DOMAIN userAnswers) =>
                       /\ Old(id).text \in DOMAIN userAnswers'
                       /\ userAnswers'[Old(id).text] = userAnswers[Old(id).text]]_vars

\* C9: once tracking has stopped, the blacklist and the application record
\* are empty.
RecordDiscardedOnStop ==
    ~isTracking =>
        /\ deletedQuestionLabels = {}
        /\ detectedQuestions = <<>>
        /\ appQuestions = <<>>
        /\ userAnswers = EmptyMap
        /\ companyId = NoValue
        /\ submittedCvId = NoValue

\* C10: the detector never has more than one set of form-input listeners
\* registered, and no observer while it is not tracking.
OneSetOfListeners ==
    /\ inputListeners <= 1
    /\ (~dcTracking => ~questionObserver)

(* ------------------------ page monitor: properties --------------------- *)

\* C11: a step that finds the page monitor stopped and leaves it stopped
\* delivers no onPageChange and changes nothing the monitor or the
\* orchestrator's progress holds; a step that finds the question detector
\* stopped and leaves it stopped registers no question and sends no
\* updateQuestions.
StoppedIsQuiet ==
    /\ [][(~isMonitoring /\ ~isMonitoring') => UNCHANGED <<currentUrl, stepVars>>]_vars
    /\ [][(~dcTracking /\ ~dcTracking') =>
            UNCHANGED <<detectedQuestions, appQuestions, userAnswers>>]_vars

(* ---------------------- auto-fill: failure paths ----------------------- *)

\* the list holds no question that refers to a form field
NothingToFill(h, questions) ==
    \A i \in 1..Len(questions) : h[questions[i]].inputElement = NoElement

Idle == \A p \in Procs : calls[p].pc = "idle"

\* C12: startAutoFill called with an empty question list, or with a list in
\* which no question refers to a form field, returns a failure with an error
\* message, starts nothing, sends no request and writes no field; a call whose
\* identity lookup yields nothing returns a failure with an error message,
\* sends no request and writes no field; a call waits for its identity only
\* after its list passed validation, and a request is sent only by a call
\* that has been waiting for its identity and got one.
StartFailsCleanly ==
    /\ [][(Idle /\ NothingToFill(heap, detectedQuestions)) =>
            /\ Idle'
            /\ outbox' = outbox
            /\ returned' # returned =>
                  /\ ~returned'.success
                  /\ returned'.error # NoValue
                  /\ value' = value]_vars
    /\ [][\A p \in Procs :
            (calls[p].pc = "userId" /\ calls'[p].pc = "idle" /\ ~returned'.success) =>
                /\ returned'.error # NoValue
                /\ outbox' = outbox
                /\ value' = value]_vars
    /\ [][\A p \in Procs :
            (calls[p].pc = "idle" /\ calls'[p].pc # "idle") =>
                /\ calls'[p].pc = "userId"
                /\ ~NothingToFill(heap, detectedQuestions)
                /\ outbox' = outbox]_vars
    /\ [][outbox' # outbox /\ Len(outbox') > Len(outbox) =>
            \E p \in Procs :
                /\ calls[p].pc = "userId"
                /\ calls'[p].pc = "answers"
                /\ calls'[p].userId # NoValue]_vars
    /\ [](\A p \in Procs :
            calls[p].pc \in {"answers", "fill", "verify", "sleep"} =>
                calls[p].userId # NoValue)

\* a call with nothing but a hand-made question has been turned down
HandMadeOnlyRejected ==
    /\ Idle
    /\ detectedQuestions # <<>>
    /\ NothingToFill(heap, detectedQuestions)
    /\ returned = handleError("No input elements found for questions", Len(detectedQuestions))

\* the round trip threw, or the response is missing, says success false, or
\* has no data
BatchFailed(reply) ==
    \/ reply.kind = "throws"
    \/ reply.kind = "undefined"
    \/ ~reply.success
    \/ ~reply.hasData

Reports(p) ==
    /\ calls[p].pc \in {"answers", "sleep"}
    /\ calls'[p].pc = "idle"
    /\ returned'.success

HasAnswers(reply) == reply.kind = "response" /\ reply.success /\ reply.hasData

\* C15: an answer array in flight has one entry per question of its request,
\* entry i being the answer written for question i or the empty string where
\* none could be written; the call takes the array up as it is, for the
\* candidates whose texts it sent, in the same order; and a fill writes into
\* the field of the candidate the loop is at the entry at that candidate's
\* position, so a field only ever receives the answer written for its own
\* question.
AnswersStayAligned ==
    /\ [](\A k \in 1..Len(outbox) :
            (outbox[k].type = "AUTO_FILL_GET_ANSWERS_BATCH" /\ Replied(outbox[k])
                /\ HasAnswers(outbox[k].reply)) =>
                /\ Len(outbox[k].reply.data) = Len(outbox[k].questions)
                /\ \A i \in 1..Len(outbox[k].questions) :
                      outbox[k].reply.data[i]
                          \in {EmptyText, GeneratedFor(outbox[k].questions[i])})
    /\ [][\A p \in Procs :
            (calls[p].pc = "answers" /\ calls'[p].pc \in {"fill", "sleep"}) =>
                /\ calls'[p].answers = PendingBatch.reply.data
                /\ Len(calls'[p].answers) = Len(calls[p].toFill)
                /\ \A i \in 1..Len(calls[p].toFill) :
                      PendingBatch.questions[i] = heap[calls[p].toFill[i]].text]_vars
    /\ [][\A p \in Procs :
            (calls[p].pc = "fill" /\ calls'[p].pc = "verify") =>
                LET question == heap[calls[p].toFill[calls[p].i + 1]]
                IN  /\ value'[question.inputElement] = calls[p].answers[calls[p].i + 1]
                    /\ \A e \in Inputs \ {question.inputElement} : value'[e] = value[e]
                    /\ value'[question.inputElement]
                           \in {EmptyText, GeneratedFor(question.text)}]_vars
    /\ [][\A e \in Inputs :
            (value'[e] # value[e] /\ value'[e].tag = "ai") =>
                \E p \in Procs :
                    /\ calls[p].pc = "fill"
                    /\ \E r \in Range(calls[p].toFill) :
                          /\ heap[r].inputElement = e
                          /\ value'[e] = GeneratedFor(heap[r].text)]_vars

\* the second candidate's field holds the answer written for it, taken from
\* an array whose first entry is the empty string of a failed generation
SecondFilledAfterEmptyFirst ==
    \E p \in Procs :
        /\ calls[p].pc = "verify"
        /\ calls[p].i = 1
        /\ calls[p].answers[1] = EmptyText
        /\ LET question == heap[calls[p].toFill[2]]
           IN  /\ value[question.inputElement] = GeneratedFor(question.text)
               /\ GeneratedFor(question.text) # GeneratedFor(heap[calls[p].toFill[1]].text)

\* C16 (as claimed): a candidate for which the answer array holds no answer
\* (no entry, or the empty string) is skipped: no step of the run changes the
\* content of its field.
UnansweredFieldKept ==
    [][\A p \in Procs :
         (/\ calls[p].pc = "fill"
          /\ calls'[p].pc # "fill"
          /\ AnswerAt(calls[p].answers, calls[p].i + 1) \in {EmptyText, Undefined}) =>
             value' = value]_vars

\* C17 (as claimed): the report of a run that reaches generateReport has in
\* skipped the number of questions the filter left out, and, the run not
\* being cancelled, filled + skipped + failed is the number of questions
\* passed in.
SkippedCountsFiltered ==
    [][\A p \in Procs :
         Reports(p) =>
             /\ returned'.skipped = Len(calls[p].questions) - Len(calls[p].toFill)
             /\ ~cancelRequested =>
                   returned'.filled + returned'.skipped + returned'.failed
                       = Len(calls[p].questions)]_vars

\* C18 (as claimed): every onPageChange the orchestrator receives carries a
\* page type other than the one it received last.
ReportsOnlyTypeChanges ==
    [][lastPageChange'.bit # lastPageChange.bit =>
          lastPageChange'.type # lastPageChange.type]_vars

\* C19 (as claimed): the page at https://www.linkedin.com/jobs/view/12345 is
\* classified job_posting, and every page whose address contains
\* /jobs/application/ or whose text contains "thank you for applying" is
\* classified application_complete.
ClassifiedAsClaimed ==
    /\ location = UrlLinkedInView /\ bodyText = BodyPlain =>
          detectPageType(location, bodyText) = "job_posting"
    /\ (\/ Includes(location, <<"/", "j", "o", "b", "s", "/", "a", "p", "p", "l", "i", "c", "a", "t", "i", "o", "n", "/">>)
        \/ Includes(toLowerCase(bodyText), <<"t", "h", "a", "n", "k", " ", "y", "o", "u", " ", "f", "o", "r", " ", "a", "p", "p", "l", "y", "i", "n", "g">>)) =>
          detectPageType(location, bodyText) = "application_complete"

(* ----------------------- extraction: properties ------------------------ *)

\* what the strategies found, in the order of their priority: structured
\* data, site-specific rules, meta tags, generic DOM analysis
ByPriority ==
    <<strategies.fromJSONLD, strategies.fromSiteSpecific, strategies.fromMeta,
      strategies.fromDOM>>

Yields(i, key) == ByPriority[i].found /\ ByPriority[i].data[key] # <<>>

\* the value of the first strategy that found something for key
FirstNonEmpty(key) ==
    IF \E i \in 1..4 : Yields(i, key)
    THEN ByPriority[CHOOSE i \in 1..4 :
                        Yields(i, key) /\ \A j \in 1..(i - 1) : ~Yields(j, key)].data[key]
    ELSE <<>>

\* the structured data had title, company and description: nothing is merged
ShortCircuit ==
    \A key \in {"jobTitle", "companyName", "jobDescription"} : Yields(1, key)

TruncatedAtWordBoundary ==
    (/\ components
     /\ ~strategies.fromJSONLD.found
     /\ ~strategies.fromSiteSpecific.found
     /\ ~strategies.fromMeta.found) =>
        LET text == strategies.fromDOM.data.jobDescription
            out == jobData.jobDescription
            kept == Len(out) - Len(TruncationNote)
            Letter(c) == InSeq(c, UpperChars) \/ InSeq(c, LowerChars)
        IN  IF Len(text) <= MaxDescription THEN out = text
            ELSE /\ kept >= 0
                 /\ kept <= MaxDescription
                 /\ out = SubSeq(text, 1, kept) \o TruncationNote
                 /\ kept > 0 => ~(Letter(text[kept]) /\ Letter(text[kept + 1]))

\* C22: extraction never aborts startTracking: whenever tracking is on,
\* startTracking has run to its end, so the components exist and the page
\* monitor and the question tracking run.
ExtractionNeverAborts ==
    isTracking =>
        /\ components
        /\ isMonitoring
        /\ dcTracking

(* ---------------------- the select adapter: properties ------------------ *)

\* C23: after a fill of the select, if some option's text or value
\* contains the answer, case-insensitively, the first such option is the one
\* selected, the fill succeeded and one change event was dispatched;
\* otherwise the fill failed, no event was dispatched and the selection is
\* the one before the call.
SelectsFirstMatch ==
    selectResult.called =>
        LET options == select.options
            target == toLowerCase(selectResult.answer)
            Matches(i) == \/ Includes(toLowerCase(options[i].text), target)
                          \/ Includes(toLowerCase(options[i].value), target)
            first == {i \in 1..Len(options) : Matches(i) /\ \A j \in 1..(i - 1) : ~Matches(j)}
        IN  IF first # {}
            THEN /\ selectResult.fill.success
                 /\ selectResult.changes = 1
                 /\ selectResult.after \in first
            ELSE /\ ~selectResult.fill.success
                 /\ selectResult.changes = 0
                 /\ selectResult.after = selectResult.before

\* C24: after fillQuestion on the select, when the adapter's fill succeeded,
\* the result is a success exactly when the trimmed value read back is not
\* empty and at least 80% as long as the trimmed answer; and it is a success
\* whenever the answer is not blank and the option now selected, whose value
\* is not blank, is one that matches the answer.
ReadBackDecides ==
    (selectResult.called /\ selectResult.fill.success) =>
        LET option == select.options[selectResult.after]
            actual == trim(option.value)
            expected == trim(selectResult.answer)
            target == toLowerCase(selectResult.answer)
        IN  /\ selectResult.result.success <=>
                  (Len(actual) > 0 /\ 10 * Len(actual) >= 8 * Len(expected))
            /\ (/\ Len(expected) > 0
                /\ Len(actual) > 0
                /\ \/ Includes(toLowerCase(option.text), target)
                   \/ Includes(toLowerCase(option.value), target)) =>
                  selectResult.result.success

\* C25: a structural change of the question set is shown at once: every step
\* that adds a question (by a scan or by hand) or removes one while the
\* sidebar is in the page leaves the sidebar's list showing exactly the
\* questions detected after the step, without waiting for the 3 s rebuild.
StructuralChangeShownAtOnce ==
    [][(sidebarUi'.element /\ questionsOf(Store)' # questionsOf(Store)) =>
           sidebarUi'.list = questionsOf(Store)']_vars

\* C26: a question text repeated on several fields is tracked once per
\* field: while the collector tracks and no rescan is pending, every form
\* field of the page has a detected question of its own, one whose
\* inputElement is that field (so that auto-fill can fill each of them).
EachInstanceTracked ==
    (dcTracking /\ ~scanTimeout) =>
        \A e \in inDom :
            \E i \in 1..Len(detectedQuestions) : heap[detectedQuestions[i]].inputElement = e

\* C27: saveApplication sends only when its validation rules hold: every
\* step that puts a SAVE_TRACKED_APPLICATION message in flight is taken with
\* a company and a CV selected in the sidebar and with a non-empty job title
\* and a non-empty company name in the application data.
SendsOnlyWhenValid ==
    [][LET Saves(o) == Cardinality({i \in 1..Len(o) : o[i].type = "SAVE_TRACKED_APPLICATION"})
       IN  Saves(outbox') > Saves(outbox) =>
               /\ sidebarSelect.companyId # NoValue
               /\ sidebarSelect.cvId # NoValue
               /\ jobData.jobTitle # <<>>
               /\ jobData.companyName # <<>>]_vars

\* C28: every startAutoFill invocation that was not rejected returns and the
\* manager is idle again: an invocation in flight leads to a state where it
\* has returned and isRunning is false, and whenever no invocation is in
\* flight isRunning is false, so that the next invocation is not rejected.
EveryInvocationReturns ==
    /\ [](Idle => ~isRunning)
    /\ \A p \in Procs :
           (calls[p].pc # "idle") ~> (calls[p].pc = "idle" /\ ~isRunning)

\* an invocation went through the fill loop and returned its report
ReturnedAfterFilling ==
    /\ Idle
    /\ ~isRunning
    /\ Len(results) > 0
    /\ returned # NoReturn
    /\ returned # AlreadyRunning

InputEventUpdatesAnswer ==
    [][\A e \in inDom :
           (dcTracking /\ inputListeners > 0 /\ value'[e] # value[e]) =>
               \A i \in 1..Len(detectedQuestions) :
                   LET question == heap[detectedQuestions[i]]
                   IN  question.inputElement = e =>
                           /\ detectedQuestions' = detectedQuestions
                           /\ heap'[detectedQuestions[i]].answer = trimText(value'[e])
                           /\ (value'[e].len >= Threshold) <=>
                                  (question.text \in DOMAIN userAnswers')]_vars

\* C31: a scan is incremental. Scanning again right after a scan changes
\* nothing at all; and every scan step (the debounced rescan, the scan of
\* startQuestionTracking) keeps each question it found in place and unchanged,
\* registers only questions whose id was not registered and whose normalized
\* text was not on the blacklist, tells the tracker (applicationData.questions
\* becomes the detected questions) if it registered one, and tells nobody
\* (applicationData.questions and the sidebar's counter, count and rebuild
\* timer stay as they are) if it registered none.
ScanIsIncremental ==
    /\ [](LET once == scanForQuestions(Store, TRUE, inDom, value)
          IN  scanForQuestions(once, TRUE, inDom, value) = once)
    /\ [][((scanTimeout /\ ~scanTimeout') \/ (~isTracking /\ isTracking' /\ components')) =>
             LET old == 1..Len(detectedQuestions)
                 new == (Len(detectedQuestions) + 1)..Len(detectedQuestions')
             IN  /\ Len(detectedQuestions') >= Len(detectedQuestions)
                 /\ \A i \in old : /\ detectedQuestions'[i] = detectedQuestions[i]
                                   /\ heap'[detectedQuestions[i]] = heap[detectedQuestions[i]]
                 /\ \A j \in new :
                        LET question == heap'[detectedQuestions'[j]]
                        IN  /\ ~HasQuestion(heap, detectedQuestions, question.id)
                            /\ question.normalizedText \notin deletedQuestionLabels
                 /\ new # {} => appQuestions' = detectedQuestions'
                 /\ new = {} => /\ appQuestions' = appQuestions
                                /\ sidebarUi'.counter = show(sidebarUi).counter
                                /\ sidebarUi'.last = sidebarUi.last
                                /\ sidebarUi'.timeout = sidebarUi.timeout]_vars

\* a rescan registered a field's question behind one added by hand, and the
\* tracker was told
RescanRegisteredBehindManual ==
    /\ dcTracking
    /\ appQuestions = detectedQuestions
    /\ \E i, j \in 1..Len(detectedQuestions) :
           /\ i < j
           /\ heap[detectedQuestions[i]].inputElement = NoElement
           /\ heap[detectedQuestions[j]].inputElement \in inDom

ValidationWaitTerminates ==
    /\ [](waiting.polls * PollStep <= waiting.timeout)
    /\ (waiting.pc # "idle") ~> (waiting.pc = "idle")

\* a call returned after ten looks that all saw an error sign, which is
\* still there
ReturnedWhileInvalid ==
    /\ waiting.pc = "idle"
    /\ waiting.timeout = ValidationTimeout
    /\ waiting.polls * PollStep = ValidationTimeout
    /\ waiting.iterations = waiting.polls
    /\ waiting.errors # {}

\* C34 (as claimed): currentStep only moves forward along job_posting,
\* application, complete: no step takes it back to job_posting once it has
\* left it, and no step takes it from complete back to application.
StepOnlyMovesForward ==
    [][LET rank == [s \in {"job_posting", "application", "complete"} |->
                       CASE s = "job_posting" -> 0
                         [] s = "application" -> 1
                         [] s = "complete" -> 2]
       IN  rank[currentStep'] >= rank[currentStep]]_vars

\* C35: a cancel() issued after startAutoFill has begun and before its fill
\* loop starts is not lost: the flag stays up while the identity lookup or
\* the answer request is pending, and when the answers arrive the call
\* returns at once, fills no question, and its report has cancelled: true,
\* filled 0 and failed 0 (a failed answer request returns its error instead).
CancelBeforeLoopNotLost ==
    /\ [][\A p \in Procs :
            (cancelRequested /\ calls[p].pc \in {"userId", "answers"}) => cancelRequested']_vars
    /\ [][\A p \in Procs :
            (cancelRequested /\ calls[p].pc = "answers" /\ calls'[p].pc # "answers") =>
                /\ calls'[p].pc = "idle"
                /\ value' = value
                /\ results' = <<>>
                /\ returned'.success =>
                       /\ returned'.cancelled
                       /\ returned'.filled = 0
                       /\ returned'.failed = 0]_vars

\* a run cancelled before its loop has returned: nothing filled, nothing failed
CancelledBeforeFirstFill ==
    /\ "cancelled" \in DOMAIN returned
    /\ returned.cancelled
    /\ returned.filled = 0
    /\ returned.failed = 0
    /\ results = <<>>
    /\ \A p \in Procs : calls[p].pc = "idle"

\* C36 (as claimed): a tracking session is never left without its sidebar:
\* whenever SidebarManager.isVisible is true, a sidebar element exists in the
\* page, and no removal timer left over from an earlier hide() takes it away.
VisibleSidebarExists ==
    sidebarUi.isVisible => sidebarUi.element

\* C37 (as claimed): the stopTracking that a successful save schedules only
\* ever ends the session that was saved, never one started after that save,
\* and no SAVE_TRACKED_APPLICATION is sent for a session that has a save in
\* flight or has been saved already.
StopTimerEndsSavedSession ==
    /\ [][(stopTimer.pending /\ ~stopTimer'.pending /\ isTracking /\ ~isTracking') =>
              stopTimer.session = inputListeners]_vars
    /\ [][Len(outbox') > Len(outbox) =>
              LET sent == outbox'[Len(outbox')]
              IN  sent.type = "SAVE_TRACKED_APPLICATION" =>
                      /\ \A i \in 1..Len(outbox) :
                             outbox[i].type = sent.type => outbox[i].session # sent.session
                      /\ ~(stopTimer.pending /\ stopTimer.session = sent.session)]_vars

\* C38 (as claimed): a startTracking that fails partway (here: the
\* extraction throws) ends in the not-tracking state: isTracking is false
\* and neither the page monitor nor the detector is running.
FailedStartEndsNotTracking ==
    [][(~isTracking /\ extractThrows(strategies)) =>
          /\ ~isTracking'
          /\ ~isMonitoring'
          /\ ~dcTracking']_vars

\* C39 (as claimed): after every operation that changes the detector's
\* question set (scan, manual add, remove) the orchestrator's
\* applicationData.questions holds exactly the detector's live questions,
\* the same objects in the same order.
TrackerHoldsLiveQuestions ==
    [][detectedQuestions' # detectedQuestions => appQuestions' = detectedQuestions']_vars

====
